---- MODULE Spec2Model ----
(***************************************************************************)
(* Signal-driven position lifecycle of the pyalgostrategypool strategies.  *)
(* Each strategy is an object with the four host callbacks                 *)
(*   strategy_select_instruments_for_entry / strategy_enter_position /     *)
(*   strategy_select_instruments_for_exit  / strategy_exit_position.       *)
(* The host (pyalgotrading) is the environment: it feeds bars and prices,  *)
(* returns order handles, and calls the callbacks.  Every strategy family  *)
(* has its own group of variables and its own specification; the groups    *)
(* a specification does not use stay at their idle value.                  *)
(***************************************************************************)
EXTENDS Integers, Sequences, FiniteSets, TLC

VARIABLES
    \* ---- OBV Breakout (obv_breakout/_strategy.py, both copies) ----
    obv_version,      \* "pool" = src/pyalgostrategypool/obv_breakout, "legacy" = src/obv_breakout
    positions_data,   \* self.positions_data: instrument -> [side, entry_price]
    hist,             \* what get_historical_data(instrument) returns now: a sequence of bars
    obv_entry,        \* (instrument, action) pairs returned by the last entry selection, not yet entered
    obv_exit,         \* (instrument, action) pairs returned by the last exit selection, not yet exited
    obv_call,         \* the last callback: what it was called with, returned, raised and did at the broker
    \* ---- crossover strategies with main_order_map (EMA regular order intraday /
    \*      delivery, inverse EMA scalping delivery, MACD crossover intraday) ----
    xo_kind,          \* which strategy class the object is
    xo_mode,          \* strategy_mode of the object
    xo_params,        \* strategy_parameters the object was constructed with
    xo_day,           \* clock, order_placed_for_the_day, orders placed since initialize()
    main_order_map,   \* self.main_order_map: instrument -> order handle, or None
    xo_cross,         \* what get_crossover_value(instrument) returns on the current candle
    xo_entry,         \* pairs returned by the last entry selection, not yet entered
    xo_exit,          \* pairs returned by the last exit selection, not yet exited
    xo_call,          \* the last callback
    \* ---- two-leg call spreads (bull call spread with stoploss, bull call spread
    \*      with trailing stoploss and re-entry, long call diagonal spread) ----
    sp_kind,          \* which strategy class the object is
    cimo,             \* self.child_instrument_main_orders: base -> (leg -> order or None)
    sp_tsl,           \* the scalars spread_entry, highest, stop, spread_current, ... of the object
    re_entry_count,   \* self.re_entry_count: base -> count
    sp_ltp,           \* broker.get_ltp of the child instruments: base -> (leg -> price)
    sp_entry,         \* (child instrument, metadata) pairs of the last entry selection, not yet entered
    sp_exit,          \* the two lists the last exit selection returned, not yet handed to exit_position
    sp_call,          \* the last callback
    sp_stopped,       \* the strategy has aborted (ABSystemExit, a crash) or set execution_complete
    \* ---- OBV Breakout, one instrument with a given position (decision functions) ----
    lab_hist,         \* get_historical_data(instrument): the bars so far
    lab_pos,          \* positions_data[instrument]
    lab_out,          \* the last decision evaluated and its result
    \* ---- crossover strategies on one instrument, with the two series ----
    ma_kind,          \* which strategy class the object is
    ma_mode,          \* self.strategy_mode
    ma_series,        \* the closes the host will deliver (SMA strategy)
    ma_hist,          \* get_historical_data: closes so far (SMA), else the last values of the two series
    ma_order,         \* self.main_order[instrument] / self.main_order_map[instrument]
    ma_entry,         \* action of the last entry selection, not yet entered ("-" if none)
    ma_exit,          \* action of the last exit selection, not yet handed to exit_position
    ma_call,          \* the last callback
    \* ---- Bollinger Bands decision ----
    bb_kind,          \* which Bollinger strategy class the object is
    bb_hist,          \* get_historical_data(instrument), oldest bar first
    bb_out,           \* the last get_decision call and what it returned
    \* ---- options strategies with re-entry ----
    rx_kind,          \* which strategy class the object is
    rx_limit,         \* RE_ENTRY_LIMIT / REENTRY_LIMIT
    rx_bucket,        \* the instruments bucket of the run (base instruments)
    rx_st,            \* the re-entry fields of the object (per class, see RXState0)
    rx_legs,          \* base -> number of leg orders held in child_instrument_main_orders*
    rx_price,         \* base -> broker.get_ltp(base)
    rx_entry,         \* legs of the last entry selection, not yet entered
    rx_exit,          \* base instruments of the last exit selection, one per leg, not yet exited
    rx_call,          \* the last callback
    rx_log,           \* history: complete entries per base (spread, butterfly); side of the last breach exit not yet re-entered (iron)
    rx_stopped,       \* ABSystemExit (or another exception) was raised
    \* ---- options strategies that track their leg orders (Greek delta target /
    \*      stoploss, short straddle OTM regular order, options box spread) ----
    lg_kind,          \* which strategy class the object is
    lg_st,            \* the order fields of the object (per class, see LGState0)
    lg_quote,         \* what the host reads now (per class, see LGTick)
    lg_entry,         \* intents of the last entry selection, not yet entered
    lg_exit           \* intents of the last exit selection, not yet exited

obvVars == <<obv_version, positions_data, hist, obv_entry, obv_exit, obv_call>>

xoVars == <<xo_kind, xo_mode, xo_params, xo_day, main_order_map, xo_cross, xo_entry, xo_exit, xo_call>>

spVars == <<sp_kind, cimo, sp_tsl, re_entry_count, sp_ltp, sp_entry, sp_exit, sp_call, sp_stopped>>

maVars == <<ma_kind, ma_mode, ma_series, ma_hist, ma_order, ma_entry, ma_exit, ma_call>>

rxVars == <<rx_kind, rx_limit, rx_bucket, rx_st, rx_legs, rx_price, rx_entry, rx_exit, rx_call, rx_log, rx_stopped>>

lgVars == <<lg_kind, lg_st, lg_quote, lg_entry, lg_exit>>

vars == <<obvVars, xoVars, spVars, lab_hist, lab_pos, lab_out, maVars, bb_kind, bb_hist, bb_out, rxVars, lgVars>>

\* What the callbacks of the strategy object g leave alone: every other object.
\* ("-" for the three objects above, whose frames name each other.)
NewFrame(g) ==
    /\ IF g = "-" THEN TRUE ELSE UNCHANGED <<obvVars, xoVars, spVars>>
    /\ IF g = "lab" THEN TRUE ELSE UNCHANGED <<lab_hist, lab_pos, lab_out>>
    /\ IF g = "ma" THEN TRUE ELSE UNCHANGED maVars
    /\ IF g = "bb" THEN TRUE ELSE UNCHANGED <<bb_kind, bb_hist, bb_out>>
    /\ IF g = "rx" THEN TRUE ELSE UNCHANGED rxVars
    /\ IF g = "lg" THEN TRUE ELSE UNCHANGED lgVars

\* What the callbacks of one strategy object leave alone: the other objects.
OBVFrame == UNCHANGED <<xoVars, spVars>> /\ NewFrame("-")

XOFrame == UNCHANGED <<obvVars, spVars>> /\ NewFrame("-")

SPFrame == UNCHANGED <<obvVars, xoVars>> /\ NewFrame("-")

-----------------------------------------------------------------------------
(* Generic helpers *)

EmptyMap == [x \in {} |-> 0]

MapPut(m, k, v) == [x \in (DOMAIN m) \cup {k} |-> IF x = k THEN v ELSE m[x]]

MapDel(m, k) == [x \in (DOMAIN m) \ {k} |-> m[x]]

SetMax(S) == CHOOSE x \in S : \A y \in S : y <= x

SetMin(S) == CHOOSE x \in S : \A y \in S : x <= y

Abs(x) == IF x < 0 THEN -x ELSE x

RECURSIVE Pow(_, _)
Pow(b, e) == IF e = 0 THEN 1 ELSE b * Pow(b, e - 1)

\* The instruments the host trades, and the buckets (ordered, duplicate free) it passes.
Instruments == {"I1", "I2"}

Buckets == {<<"I1">>, <<"I1", "I2">>, <<"I2", "I1">>}

-----------------------------------------------------------------------------
(* OBV Breakout *)

\* Strategy parameters (strategy_parameters.get(...)); small values so that a
\* window of MaxBars bars is long enough for every lookback.
ObvMaPeriod == 2
LookbackPeriod == 2
TrailingStopPeriod == 2
AtrPeriod == 1
AtrMultiplier == 2

\* Longest bar window the host keeps (older bars slide out).
MaxBars == 2

\* The bars the host can deliver: low <= close <= high.
BarSet ==
    { [high |-> 2, low |-> 1, close |-> 1, volume |-> 1],
      [high |-> 2, low |-> 1, close |-> 2, volume |-> 1],
      [high |-> 3, low |-> 2, close |-> 3, volume |-> 2] }

\* talib.OBV(close, volume) at bar k (1-based): cumulative signed volume.
RECURSIVE ObvAt(_, _)
ObvAt(h, k) ==
    IF k = 1 THEN h[1].volume
    ELSE IF h[k].close > h[k-1].close THEN ObvAt(h, k - 1) + h[k].volume
    ELSE IF h[k].close < h[k-1].close THEN ObvAt(h, k - 1) - h[k].volume
    ELSE ObvAt(h, k - 1)

\* talib.SMA(obv, obv_ma_period) at bar k, times obv_ma_period (kept integral).
\* It is NaN for k < obv_ma_period: SmaDefined tells.
SmaDefined(k) == k >= ObvMaPeriod

RECURSIVE SumObv(_, _, _)
SumObv(h, from, to) == IF from > to THEN 0 ELSE ObvAt(h, to) + SumObv(h, from, to - 1)

SmaTimesPeriod(h, k) == SumObv(h, k - ObvMaPeriod + 1, k)

\* The last n indices of a window (pandas .iloc[-n:]: the whole window when shorter).
LastIdx(h, n) == {k \in 1..Len(h) : k > Len(h) - n}

Last(h) == h[Len(h)]

\* is_price_breakout: latest close against the highest high of the lookback.
\* pool: False on a short window, >= ; legacy: no length guard, strict > .
IsPriceBreakout(v, h) ==
    IF v = "pool"
    THEN /\ Len(h) >= LookbackPeriod
         /\ Last(h).close >= SetMax({h[k].high : k \in LastIdx(h, LookbackPeriod)})
    ELSE Last(h).close > SetMax({h[k].high : k \in LastIdx(h, LookbackPeriod)})

\* is_price_breakdown: latest close against the lowest low of the lookback.
IsPriceBreakdown(v, h) ==
    IF v = "pool"
    THEN /\ Len(h) >= LookbackPeriod
         /\ Last(h).close <= SetMin({h[k].low : k \in LastIdx(h, LookbackPeriod)})
    ELSE Last(h).close < SetMin({h[k].low : k \in LastIdx(h, LookbackPeriod)})

\* is_obv_breakout: latest smoothed OBV against the highest smoothed OBV of the
\* lookback.  A NaN latest value compares False; pandas max() skips NaN (pool),
\* Python max() returns a leading NaN (legacy), and then the comparison is False.
IsObvBreakout(v, h) ==
    IF v = "pool"
    THEN /\ Len(h) >= LookbackPeriod
         /\ SmaDefined(Len(h))
         /\ \A k \in LastIdx(h, LookbackPeriod) :
                SmaDefined(k) => SmaTimesPeriod(h, Len(h)) >= SmaTimesPeriod(h, k)
    ELSE /\ \A k \in LastIdx(h, LookbackPeriod) : SmaDefined(k)
         /\ \A k \in LastIdx(h, LookbackPeriod) :
                SmaTimesPeriod(h, Len(h)) > SmaTimesPeriod(h, k)

\* is_obv_breakdown: the symmetric minimum case.
IsObvBreakdown(v, h) ==
    IF v = "pool"
    THEN /\ Len(h) >= LookbackPeriod
         /\ SmaDefined(Len(h))
         /\ \A k \in LastIdx(h, LookbackPeriod) :
                SmaDefined(k) => SmaTimesPeriod(h, Len(h)) <= SmaTimesPeriod(h, k)
    ELSE /\ \A k \in LastIdx(h, LookbackPeriod) : SmaDefined(k)
         /\ \A k \in LastIdx(h, LookbackPeriod) :
                SmaTimesPeriod(h, Len(h)) < SmaTimesPeriod(h, k)

\* compute_signals: "BUY", "SELL", "NONE" (Python None), or "RAISE" when the
\* call raises (legacy indexes the last bar of an empty window).
ComputeSignals(v, h) ==
    IF h = <<>> THEN (IF v = "pool" THEN "NONE" ELSE "RAISE")
    ELSE IF IsPriceBreakout(v, h) /\ IsObvBreakout(v, h) THEN "BUY"
    ELSE IF IsPriceBreakdown(v, h) /\ IsObvBreakdown(v, h) THEN "SELL"
    ELSE "NONE"

\* True range of bar k >= 2, and talib.ATR at the last bar as a fraction
\* AtrNum / AtrDen (Wilder smoothing); NaN unless Len(h) > AtrPeriod.
TrueRange(h, k) ==
    SetMax({h[k].high - h[k].low, Abs(h[k].high - h[k-1].close), Abs(h[k].low - h[k-1].close)})

\* Mutant: the ATR is never available, so the ATR stop never fires.
AtrNever(h) == FALSE

AtrDefined(h) == Len(h) > AtrPeriod

AtrDen(n) == Pow(AtrPeriod, n - AtrPeriod)

RECURSIVE SumTR(_, _, _)
SumTR(h, from, to) == IF from > to THEN 0 ELSE TrueRange(h, to) + SumTR(h, from, to - 1)

RECURSIVE AtrNum(_, _)
AtrNum(h, n) ==
    IF n = AtrPeriod + 1 THEN SumTR(h, 2, n)
    ELSE AtrNum(h, n - 1) * (AtrPeriod - 1) + TrueRange(h, n) * AtrDen(n - 1)

\* The exit test of strategy_select_instruments_for_exit for one open position:
\* "EXIT", "NONE", or "RAISE" (obv.iloc[-1] / obv[-1] on an empty window).
ExitDecision(h, pos) ==
    IF h = <<>> THEN "RAISE"
    ELSE
    LET n == Len(h)
        current_obv == ObvAt(h, n)
        seg == {ObvAt(h, k) : k \in LastIdx(h, LookbackPeriod)}
        min_obv == SetMin(seg)
        max_obv == SetMax(seg)
        close_price == h[n].close
        trailing_stop_long == SetMin({h[k].low : k \in LastIdx(h, TrailingStopPeriod)})
        trailing_stop_short == SetMax({h[k].high : k \in LastIdx(h, TrailingStopPeriod)})
        long_obv == \/ (SmaDefined(n) /\ current_obv * ObvMaPeriod < SmaTimesPeriod(h, n))
                    \/ current_obv < min_obv
        long_stop == \/ close_price < trailing_stop_long
                     \/ (AtrDefined(h) /\ close_price * AtrDen(n)
                            < pos.entry_price * AtrDen(n) - AtrMultiplier * AtrNum(h, n))
        short_obv == \/ (SmaDefined(n) /\ current_obv * ObvMaPeriod > SmaTimesPeriod(h, n))
                     \/ current_obv > max_obv
        short_stop == \/ close_price > trailing_stop_short
                      \/ (AtrDefined(h) /\ close_price * AtrDen(n)
                             > pos.entry_price * AtrDen(n) + AtrMultiplier * AtrNum(h, n))
    IN  IF pos.side = "LONG" THEN (IF long_obv \/ long_stop THEN "EXIT" ELSE "NONE")
        ELSE IF pos.side = "SHORT" THEN (IF short_obv \/ short_stop THEN "EXIT" ELSE "NONE")
        ELSE "NONE"

\* Mutant: the entry selector does not look at the ledger.
EntrySkipNever(pd, i) == FALSE

\* "Skip if already in a position": the ledger test of the entry selector.
EntrySkip(pd, i) == i \in DOMAIN pd

\* The loop of strategy_select_instruments_for_entry over the bucket from
\* position k on: the (instrument, action) pairs, and whether it raised.
RECURSIVE SelectEntryFrom(_, _, _, _, _)
SelectEntryFrom(v, pd, hs, bucket, k) ==
    IF k > Len(bucket) THEN [sel |-> <<>>, raised |-> FALSE]
    ELSE LET i == bucket[k]
             rest == SelectEntryFrom(v, pd, hs, bucket, k + 1)
             signal == ComputeSignals(v, hs[i])
         IN  IF EntrySkip(pd, i) THEN rest
             ELSE IF signal = "RAISE" THEN [sel |-> <<>>, raised |-> TRUE]
             ELSE IF signal \in {"BUY", "SELL"}
                  THEN [sel |-> <<[instrument |-> i, action |-> signal]>> \o rest.sel,
                        raised |-> rest.raised]
             ELSE rest

\* The loop of strategy_select_instruments_for_exit.
RECURSIVE SelectExitFrom(_, _, _, _)
SelectExitFrom(pd, hs, bucket, k) ==
    IF k > Len(bucket) THEN [sel |-> <<>>, raised |-> FALSE]
    ELSE LET i == bucket[k]
             rest == SelectExitFrom(pd, hs, bucket, k + 1)
         IN  IF i \notin DOMAIN pd THEN rest
             ELSE LET d == ExitDecision(hs[i], pd[i])
                  IN  IF d = "RAISE" THEN [sel |-> <<>>, raised |-> TRUE]
                      ELSE IF d = "EXIT"
                           THEN [sel |-> <<[instrument |-> i, action |-> "EXIT"]>> \o rest.sel,
                                 raised |-> rest.raised]
                      ELSE rest

OBVCall(op, i, a, ret, raised, ordered, closed) ==
    [op |-> op, instrument |-> i, action |-> a, ret |-> ret, raised |-> raised,
     ordered |-> ordered, closed |-> closed]

OBVIdle ==
    /\ obv_version = "pool"
    /\ positions_data = EmptyMap
    /\ hist = [i \in Instruments |-> <<>>]
    /\ obv_entry = <<>>
    /\ obv_exit = <<>>
    /\ obv_call = OBVCall("init", "-", "-", "None", FALSE, FALSE, FALSE)

\* __init__ + initialize(): positions_data = {} ; the host has no bars yet.
OBVInit ==
    /\ obv_version \in {"pool", "legacy"}
    /\ positions_data = EmptyMap
    /\ hist = [i \in Instruments |-> <<>>]
    /\ obv_entry = <<>>
    /\ obv_exit = <<>>
    /\ obv_call = OBVCall("init", "-", "-", "None", FALSE, FALSE, FALSE)

\* Host: a new candle for instrument i; the window slides at MaxBars.
OBVNewCandle(i, b) ==
    /\ hist' = [hist EXCEPT ![i] =
                  IF Len(@) < MaxBars THEN Append(@, b) ELSE Append(Tail(@), b)]
    /\ UNCHANGED <<obv_version, positions_data, obv_entry, obv_exit, obv_call>>
    /\ OBVFrame

\* Host: get_historical_data has nothing for instrument i (the empty frame the
\* code tests with hist_data.empty).
OBVNoData(i) ==
    /\ hist[i] # <<>>
    /\ hist' = [hist EXCEPT ![i] = <<>>]
    /\ UNCHANGED <<obv_version, positions_data, obv_entry, obv_exit, obv_call>>
    /\ OBVFrame

\* strategy_select_instruments_for_entry(candle, bucket); the host calls the
\* callbacks one after the other: a selection is followed by the calls for
\* what it selected.
OBVSelectForEntry(bucket) ==
    LET r == SelectEntryFrom(obv_version, positions_data, hist, bucket, 1)
    IN  /\ obv_entry = <<>> /\ obv_exit = <<>>
        /\ obv_entry' = (IF r.raised THEN <<>> ELSE r.sel)
        /\ obv_call' = OBVCall("select_entry", "-", "-", "None", r.raised, FALSE, FALSE)
        /\ UNCHANGED <<obv_version, positions_data, hist, obv_exit>>
        /\ OBVFrame

\* The record strategy_enter_position stores: side from the action, entry price
\* from the latest close.
EntryRecord(action, h) ==
    [side |-> IF action = "BUY" THEN "LONG" ELSE "SHORT", entry_price |-> Last(h).close]

\* strategy_enter_position(candle, instrument, meta) for the next selected pair:
\* the order goes to the broker first, the record is written after the data check.
OBVEnterPosition ==
    /\ obv_entry # <<>>
    /\ LET i == Head(obv_entry).instrument
           a == Head(obv_entry).action
       IN  /\ obv_entry' = Tail(obv_entry)
           /\ IF hist[i] = <<>>
              THEN /\ positions_data' = positions_data
                   /\ obv_call' = OBVCall("enter", i, a, "None", obv_version = "legacy", TRUE, FALSE)
              ELSE /\ positions_data' = MapPut(positions_data, i, EntryRecord(a, hist[i]))
                   /\ obv_call' = OBVCall("enter", i, a, "None", FALSE, TRUE, FALSE)
    /\ UNCHANGED <<obv_version, hist, obv_exit>>
    /\ OBVFrame

\* strategy_select_instruments_for_exit(candle, bucket)
OBVSelectForExit(bucket) ==
    LET r == SelectExitFrom(positions_data, hist, bucket, 1)
    IN  /\ obv_entry = <<>> /\ obv_exit = <<>>
        /\ obv_exit' = (IF r.raised THEN <<>> ELSE r.sel)
        /\ obv_call' = OBVCall("select_exit", "-", "-", "None", r.raised, FALSE, FALSE)
        /\ UNCHANGED <<obv_version, positions_data, hist, obv_entry>>
        /\ OBVFrame

\* What strategy_exit_position leaves in positions_data.
ExitLedger(pd, i) == IF i \in DOMAIN pd THEN MapDel(pd, i) ELSE pd

\* What strategy_exit_position returns: the method has no return statement.
ExitReturn(action) == "None"

\* strategy_exit_position(candle, instrument, meta) for the next selected pair.
OBVExitPosition ==
    /\ obv_exit # <<>>
    /\ LET i == Head(obv_exit).instrument
           a == Head(obv_exit).action
       IN  /\ obv_exit' = Tail(obv_exit)
           /\ IF a = "EXIT"
              THEN /\ positions_data' = ExitLedger(positions_data, i)
                   /\ obv_call' = OBVCall("exit", i, a, ExitReturn(a), FALSE, FALSE, TRUE)
              ELSE /\ positions_data' = positions_data
                   /\ obv_call' = OBVCall("exit", i, a, ExitReturn(a), FALSE, FALSE, FALSE)
    /\ UNCHANGED <<obv_version, hist, obv_entry>>
    /\ OBVFrame

OBVNext ==
    \/ \E i \in Instruments, b \in BarSet : OBVNewCandle(i, b)
    \/ \E i \in Instruments : OBVNoData(i)
    \/ \E bucket \in Buckets : OBVSelectForEntry(bucket)
    \/ OBVEnterPosition
    \/ \E bucket \in Buckets : OBVSelectForExit(bucket)
    \/ OBVExitPosition

-----------------------------------------------------------------------------
(* Crossover strategies that keep one order handle per instrument *)

None == [action |-> "None"]

XOKinds ==
    {"ema_intraday", "ema_delivery", "inverse_ema_delivery", "macd_intraday", "vwap_intraday",
     "bollinger_bracket", "orb_crossover", "orb_cover"}

\* The open range breakout strategies (crossover, cover order).
ORBKinds == {"orb_crossover", "orb_cover"}

\* The keys of strategy_parameters that __init__ reads.
ParamNames(kind) ==
    IF kind \in {"ema_intraday", "ema_delivery"} THEN {"TIMEPERIOD1", "TIMEPERIOD2"}
    ELSE IF kind = "inverse_ema_delivery" THEN {"LARGER_TIME_PERIOD", "SMALLER_TIME_PERIOD"}
    ELSE IF kind = "macd_intraday" THEN {"TIMEPERIOD_FAST", "TIMEPERIOD_SLOW", "TIMEPERIOD_SIGNAL"}
    ELSE IF kind = "bollinger_bracket"
    THEN {"TIME_PERIOD", "STANDARD_DEVIATIONS", "STOPLOSS_TRIGGER", "TARGET_TRIGGER",
          "TRAILING_STOPLOSS_TRIGGER"}
    ELSE IF kind = "orb_crossover" THEN {"START_TIME_HOURS", "START_TIME_MINUTES"}
    ELSE IF kind = "orb_cover"
    THEN {"USER_DEFINED_CANDLE_START_TIME_HOURS", "USER_DEFINED_CANDLE_START_TIME_MINUTES",
          "STOPLOSS_TRIGGER"}
    ELSE {}

\* Parameter values in tenths: 0, 0.5 and 2.
ParamValues == {0, 5, 20}

\* assert (0 < x == int(x))
PositiveInteger(x) == 0 < x /\ x % 10 = 0

\* assert (0 < x < 1)
ProperFraction(x) == 0 < x /\ x < 10

\* The assertions of __init__: the Bollinger Bands bracket order strategy
\* checks its periods and fractions, the open range breakout strategies must
\* get a time of day out of the hours and minutes (whole numbers) and the cover
\* order asserts its stoploss; the other constructors store the parameters as
\* they come.
InitAccepts(kind, p) ==
    /\ kind = "bollinger_bracket"
          => /\ PositiveInteger(p["TIME_PERIOD"])
             /\ PositiveInteger(p["STANDARD_DEVIATIONS"])
             /\ ProperFraction(p["STOPLOSS_TRIGGER"])
             /\ ProperFraction(p["TARGET_TRIGGER"])
             /\ 0 < p["TRAILING_STOPLOSS_TRIGGER"]
    /\ kind = "orb_crossover"
          => p["START_TIME_HOURS"] % 10 = 0 /\ p["START_TIME_MINUTES"] % 10 = 0
    /\ kind = "orb_cover"
          => /\ p["USER_DEFINED_CANDLE_START_TIME_HOURS"] % 10 = 0
             /\ p["USER_DEFINED_CANDLE_START_TIME_MINUTES"] % 10 = 0
             /\ ProperFraction(p["STOPLOSS_TRIGGER"])

\* candle_start_time / udc_candle, in minutes of the day.
StartTime(kind, p) ==
    IF kind = "orb_crossover"
    THEN 60 * (p["START_TIME_HOURS"] \div 10) + (p["START_TIME_MINUTES"] \div 10)
    ELSE 60 * (p["USER_DEFINED_CANDLE_START_TIME_HOURS"] \div 10)
           + (p["USER_DEFINED_CANDLE_START_TIME_MINUTES"] \div 10)

\* clock.CLOCK.now().time(), in minutes of the day.
ClockTimes == {0, 2, 120, 122}

\* initialize(): order_placed_for_the_day = {}; `entered` counts the orders
\* strategy_enter_position has placed since.
Day0 == [now |-> 0, placed |-> {}, entered |-> [i \in Instruments |-> 0]]

XOCall(op, i, a, ret) == [op |-> op, instrument |-> i, action |-> a, ret |-> ret]

\* __init__ + initialize(): main_order_map = {} (a missing key reads as None).
XOInit ==
    /\ xo_kind \in XOKinds
    /\ xo_mode \in {"INTRADAY", "DELIVERY"}
    /\ xo_params \in {p \in [ParamNames(xo_kind) -> ParamValues] : InitAccepts(xo_kind, p)}
    /\ xo_day = Day0
    /\ main_order_map = [i \in Instruments |-> None]
    /\ xo_cross = [i \in Instruments |-> 0]
    /\ xo_entry = <<>>
    /\ xo_exit = <<>>
    /\ xo_call = XOCall("init", "-", "-", "None")

XOIdle ==
    /\ xo_kind = "macd_intraday"
    /\ xo_mode = "INTRADAY"
    /\ xo_params = <<>>
    /\ xo_day = Day0
    /\ main_order_map = [i \in Instruments |-> None]
    /\ xo_cross = [i \in Instruments |-> 0]
    /\ xo_entry = <<>>
    /\ xo_exit = <<>>
    /\ xo_call = XOCall("init", "-", "-", "None")

\* action_constants of the entry selector: the inverse EMA strategy maps -1 to BUY.
XOAction(kind, crossover) ==
    IF kind = "inverse_ema_delivery"
    THEN (IF crossover = -1 THEN "BUY" ELSE "SELL")
    ELSE (IF crossover = 1 THEN "BUY" ELSE "SELL")

\* The ledger test of the entry selector: MACD and VWAP test
\* main_order_map.get(i) is None, the EMA strategies evaluate every instrument
\* of the bucket, the Bollinger Bands bracket order strategy tests
\* main_order.get(i) is not None, the open range breakout strategies test that
\* the instrument is not in order_placed_for_the_day and has no main order.
\* Mutant: the open range breakout strategies do not look at
\* order_placed_for_the_day.
XOEntryEligibleAgain(kind, mom, placed, i) ==
    IF kind \in {"macd_intraday", "vwap_intraday"} \cup ORBKinds THEN mom[i] = None
    ELSE IF kind = "bollinger_bracket" THEN mom[i] # None
    ELSE TRUE

XOEntryEligible(kind, mom, placed, i) ==
    IF kind \in {"macd_intraday", "vwap_intraday"} THEN mom[i] = None
    ELSE IF kind = "bollinger_bracket" THEN mom[i] # None
    ELSE IF kind \in ORBKinds THEN i \notin placed /\ mom[i] = None
    ELSE TRUE

\* cross[i] is the crossover of the instrument; for the Bollinger Bands bracket
\* order strategy and the open range breakout strategies it is the market
\* action / decision (1 ENTRY_BUY_EXIT_SELL, -1 ENTRY_SELL_EXIT_BUY, 0 NO_ACTION),
\* and SELL is selected in INTRADAY mode only.
RECURSIVE XOSelectEntryFrom(_, _, _, _, _, _, _)
XOSelectEntryFrom(kind, mode, placed, mom, cross, bucket, k) ==
    IF k > Len(bucket) THEN <<>>
    ELSE LET i == bucket[k]
             rest == XOSelectEntryFrom(kind, mode, placed, mom, cross, bucket, k + 1)
         IN  IF /\ XOEntryEligible(kind, mom, placed, i)
                /\ cross[i] \in {-1, 1}
                /\ (kind \in {"bollinger_bracket"} \cup ORBKinds /\ cross[i] = -1) => mode = "INTRADAY"
             THEN <<[instrument |-> i, action |-> XOAction(kind, cross[i])]>> \o rest
             ELSE rest

\* The Bollinger Bands bracket order strategy and the open range breakout
\* cover order strategy exit a BUY order on ENTRY_SELL_EXIT_BUY and a SELL order
\* on ENTRY_BUY_EXIT_SELL; the open range breakout crossover strategy exits a
\* SELL order on EXIT_SELL (1) and a BUY order on EXIT_BUY (-1).
RECURSIVE XOSelectExitFrom(_, _, _, _, _)
XOSelectExitFrom(kind, mom, cross, bucket, k) ==
    IF k > Len(bucket) THEN <<>>
    ELSE LET i == bucket[k]
             rest == XOSelectExitFrom(kind, mom, cross, bucket, k + 1)
         IN  IF /\ mom[i] # None
                /\ cross[i] \in {1, -1}
                /\ kind \in {"bollinger_bracket"} \cup ORBKinds
                      => mom[i].action = (IF cross[i] = 1 THEN "SELL" ELSE "BUY")
             THEN <<[instrument |-> i, action |-> "EXIT"]>> \o rest
             ELSE rest

\* Host: the next candle; the crossover of each instrument is -1, 0 or 1.
XONewCandle(c) ==
    /\ xo_cross' = c
    /\ c # xo_cross
    /\ UNCHANGED <<xo_kind, xo_mode, xo_params, xo_day, main_order_map, xo_entry, xo_exit, xo_call>>
    /\ XOFrame

\* initialize_instrument(instrument) of the delivery strategies, called by the
\* host after initialize(): the first order the instrument carries over from
\* the previous day is stored; `orders` is instrument.orders.
XOInitializeInstrument(i, orders) ==
    /\ xo_kind \in {"ema_delivery", "inverse_ema_delivery"}
    /\ xo_call.op \in {"init", "initialize_instrument"}
    /\ main_order_map[i] = None
    /\ main_order_map' = (IF orders # <<>> THEN [main_order_map EXCEPT ![i] = orders[1]]
                          ELSE main_order_map)
    /\ xo_call' = XOCall("initialize_instrument", i, "-", "None")
    /\ UNCHANGED <<xo_kind, xo_mode, xo_params, xo_day, xo_cross, xo_entry, xo_exit>>
    /\ XOFrame

\* strategy_select_instruments_for_entry(candle, bucket)
XOSelectForEntry(bucket) ==
    /\ xo_entry = <<>> /\ xo_exit = <<>>
    /\ xo_entry' = IF xo_kind \in ORBKinds /\ ~(xo_day.now >= StartTime(xo_kind, xo_params))
                    THEN <<>>
                    ELSE XOSelectEntryFrom(xo_kind, xo_mode, xo_day.placed, main_order_map,
                                           xo_cross, bucket, 1)
    /\ xo_call' = XOCall("select_entry", "-", "-", "None")
    /\ UNCHANGED <<xo_kind, xo_mode, xo_params, xo_day, main_order_map, xo_cross, xo_exit>>
    /\ XOFrame

\* strategy_enter_position: main_order_map[instrument] = broker.OrderRegular(...);
\* the open range breakout strategies also set order_placed_for_the_day.
XOEnterPosition ==
    /\ xo_entry # <<>>
    /\ LET i == Head(xo_entry).instrument
           a == Head(xo_entry).action
       IN  /\ main_order_map' = [main_order_map EXCEPT ![i] = [action |-> a]]
           /\ xo_call' = XOCall("enter", i, a, "order")
           /\ xo_day' = IF xo_kind \in ORBKinds
                         THEN [xo_day EXCEPT !.placed = @ \cup {i},
                                             !.entered[i] = IF @ < 2 THEN @ + 1 ELSE @]
                         ELSE xo_day
    /\ xo_entry' = Tail(xo_entry)
    /\ UNCHANGED <<xo_kind, xo_mode, xo_params, xo_cross, xo_exit>>
    /\ XOFrame

\* strategy_select_instruments_for_exit(candle, bucket)
XOSelectForExit(bucket) ==
    /\ xo_entry = <<>> /\ xo_exit = <<>>
    /\ xo_exit' = XOSelectExitFrom(xo_kind, main_order_map, xo_cross, bucket, 1)
    /\ xo_call' = XOCall("select_exit", "-", "-", "None")
    /\ UNCHANGED <<xo_kind, xo_mode, xo_params, xo_day, main_order_map, xo_cross, xo_entry>>
    /\ XOFrame

\* strategy_exit_position: exit the order, clear the map entry, return True;
\* any other action returns False.
XOExitPosition ==
    /\ xo_exit # <<>>
    /\ LET i == Head(xo_exit).instrument
           a == Head(xo_exit).action
       IN  IF a = "EXIT"
           THEN /\ main_order_map' = [main_order_map EXCEPT ![i] = None]
                /\ xo_call' = XOCall("exit", i, a, "True")
           ELSE /\ main_order_map' = main_order_map
                /\ xo_call' = XOCall("exit", i, a, "False")
    /\ xo_exit' = Tail(xo_exit)
    /\ UNCHANGED <<xo_kind, xo_mode, xo_params, xo_day, xo_cross, xo_entry>>
    /\ XOFrame

\* Host: the clock of the open range breakout strategies moves.
XOClock(t) ==
    /\ xo_kind \in ORBKinds
    /\ t # xo_day.now
    /\ xo_day' = [xo_day EXCEPT !.now = t]
    /\ UNCHANGED <<xo_kind, xo_mode, xo_params, main_order_map, xo_cross, xo_entry, xo_exit, xo_call>>
    /\ XOFrame

\* initialize(), called again by the host for the next day: the order map and
\* order_placed_for_the_day are emptied.
XOInitialize ==
    /\ xo_entry = <<>> /\ xo_exit = <<>>
    /\ xo_call.op # "init"
    /\ main_order_map' = [i \in Instruments |-> None]
    /\ xo_day' = [Day0 EXCEPT !.now = xo_day.now]
    /\ xo_call' = XOCall("init", "-", "-", "None")
    /\ UNCHANGED <<xo_kind, xo_mode, xo_params, xo_cross, xo_entry, xo_exit>>
    /\ XOFrame

XONext ==
    \/ \E c \in [Instruments -> {-1, 0, 1}] : XONewCandle(c)
    \/ \E t \in ClockTimes : XOClock(t)
    \/ XOInitialize
    \/ \E i \in Instruments, orders \in {<<>>, <<[action |-> "BUY"]>>, <<[action |-> "SELL"]>>} :
            XOInitializeInstrument(i, orders)
    \/ \E bucket \in Buckets : XOSelectForEntry(bucket)
    \/ XOEnterPosition
    \/ \E bucket \in Buckets : XOSelectForExit(bucket)
    \/ XOExitPosition

-----------------------------------------------------------------------------
(* Two-leg call spreads *)

SPKinds == {"bcs_stoploss", "bcs_tsl_reentry", "diagonal"}

Bases == {"B1", "B2"}

BaseBuckets == {<<"B1">>, <<"B1", "B2">>, <<"B2", "B1">>}

\* leg_wise_list: the BUY leg first, then the SELL leg.
Legs == <<"BUY", "SELL">>

\* Strategy parameters: TRAILING_STOPLOSS_PERCENTAGE, STOPLOSS_PERCENTAGE and
\* RE_ENTRY_COUNT / RE_ENTRY_LIMIT.
TslPercentage == 50
StoplossPercentage == 50
ReEntryLimit == 1

\* Prices the broker quotes for the legs.
LtpBuySet == {2, 3, 5}
LtpSellSet == {1}

Quotes ==
    {l \in [Bases -> [{"BUY", "SELL"} -> LtpBuySet \cup LtpSellSet]] :
        \A b \in Bases : l[b]["BUY"] \in LtpBuySet /\ l[b]["SELL"] \in LtpSellSet}

\* self.spread_entry = self.highest = self.stop = ... = None (0 stands for None:
\* the code tests `not self.spread_entry`).  stop, stoploss_premium and
\* trailing_stop are kept times 100.
TslNone ==
    [spread_entry |-> 0, highest |-> 0, stop |-> 0, spread_current |-> 0,
     stoploss_premium |-> 0, trailing_stop |-> 0, activated |-> FALSE]

NoOrder == [status |-> "NONE", entry_price |-> 0]

\* check_order_placed_successfully / check_order_complete_status
OrderPlaced(o) == o # NoOrder /\ o.status # "REJECTED"

OrderComplete(o) == o # NoOrder /\ o.status = "COMPLETE"

\* trailing_stop_spread(base_instrument, trail_percentage) of the bull call
\* spreads: the new scalars and whether the trailing stop is hit.
TrailingStopSpread(t, orders, ltp) ==
    LET spread0 == orders["BUY"].entry_price - orders["SELL"].entry_price
        t1 == IF t.spread_entry = 0
              THEN [t EXCEPT !.spread_entry = spread0, !.highest = spread0,
                             !.stop = spread0 * (100 - TslPercentage)]
              ELSE t
        cur == ltp["BUY"] - ltp["SELL"]
        t2 == [t1 EXCEPT !.spread_current = cur]
        t3 == IF cur > t2.highest
              THEN [t2 EXCEPT !.highest = cur, !.stop = cur * (100 - TslPercentage)]
              ELSE t2
    IN  IF cur * 100 < t3.stop
        THEN [t |-> [t3 EXCEPT !.highest = 0, !.spread_entry = 0, !.stop = 0], hit |-> TRUE]
        ELSE [t |-> t3, hit |-> FALSE]

\* _check_exit_conditions(child_leg_orders_dict) of the diagonal spread.
CheckExitConditions(t, orders, ltp) ==
    LET spread0 == orders["BUY"].entry_price - orders["SELL"].entry_price
        t1 == IF t.spread_entry = 0
              THEN [t EXCEPT !.spread_entry = spread0,
                             !.stoploss_premium = spread0 * (100 - StoplossPercentage),
                             !.highest = spread0,
                             !.trailing_stop = spread0 * (100 - StoplossPercentage)]
              ELSE t
        cur == ltp["BUY"] - ltp["SELL"]
        t2 == [t1 EXCEPT !.spread_current = cur]
        new_stop == cur * (100 - TslPercentage)
    IN  IF cur * 100 < t2.stoploss_premium
        THEN [t |-> [t2 EXCEPT !.highest = 0, !.spread_entry = 0, !.trailing_stop = 0,
                               !.activated = FALSE],
              hit |-> TRUE]
        ELSE IF cur > t2.highest
        THEN [t |-> [t2 EXCEPT !.activated = TRUE, !.trailing_stop = new_stop,
                               !.highest = cur, !.stoploss_premium = new_stop],
              hit |-> FALSE]
        ELSE [t |-> t2, hit |-> FALSE]

\* The legs of a base whose stored order is not None, in dict order.
RECURSIVE LegsHeld(_, _)
LegsHeld(orders, k) ==
    IF k > Len(Legs) THEN <<>>
    ELSE IF Legs[k] \in DOMAIN orders /\ orders[Legs[k]] # NoOrder
         THEN <<Legs[k]>> \o LegsHeld(orders, k + 1)
         ELSE LegsHeld(orders, k + 1)

\* How many metadata entries the exit selector adds for one base:
\* [{...}] * len(self.child_instrument_main_orders), the number of bases in the ledger.
ExitMetaCount(m, base) == Cardinality(DOMAIN m)

\* n copies of x.
RECURSIVE Repeat(_, _)
Repeat(x, n) == IF n <= 0 THEN <<>> ELSE <<x>> \o Repeat(x, n - 1)

\* The loop of strategy_select_instruments_for_exit over the bases of the
\* bucket's child instruments (a base is processed once), threading the scalars.
RECURSIVE SPSelectExitFrom(_, _, _, _, _, _)
SPSelectExitFrom(kind, m, t, ltp, bucket, k) ==
    IF k > Len(bucket) THEN [instruments |-> <<>>, meta |-> <<>>, t |-> t, raised |-> "none"]
    ELSE LET base == bucket[k]
         IN  IF base \notin DOMAIN m \/ DOMAIN m[base] = {}
             THEN SPSelectExitFrom(kind, m, t, ltp, bucket, k + 1)
             ELSE IF ~(\A leg \in DOMAIN m[base] : OrderComplete(m[base][leg]))
             THEN SPSelectExitFrom(kind, m, t, ltp, bucket, k + 1)
             ELSE IF DOMAIN m[base] # {"BUY", "SELL"}
             THEN [instruments |-> <<>>, meta |-> <<>>, t |-> t, raised |-> "KeyError"]
             ELSE LET r == IF kind = "diagonal"
                           THEN CheckExitConditions(t, m[base], ltp[base])
                           ELSE TrailingStopSpread(t, m[base], ltp[base])
                      rest == SPSelectExitFrom(kind, m, r.t, ltp, bucket, k + 1)
                      held == LegsHeld(m[base], 1)
                  IN  IF r.hit
                      THEN [instruments |-> [j \in 1..Len(held) |-> <<base, held[j]>>]
                                               \o rest.instruments,
                            meta |-> Repeat([action |-> "EXIT", base_instrument |-> base],
                                            ExitMetaCount(m, base)) \o rest.meta,
                            t |-> rest.t, raised |-> rest.raised]
                      ELSE rest

\* The re-entry bookkeeping of the entry selector for one base without orders:
\* whether the base is skipped, and the re_entry_count it leaves.
\*  bcs_stoploss:    first time -> 0; later: skipped at the limit, else += 1
\*  bcs_tsl_reentry: counts in a local variable only
\*  diagonal:        skipped at the limit, else stored + 1
ReEntry(kind, rc, base) ==
    IF kind = "bcs_stoploss"
    THEN IF base \in DOMAIN rc
         THEN IF rc[base] >= ReEntryLimit THEN [skip |-> TRUE, rc |-> rc]
              ELSE [skip |-> FALSE, rc |-> MapPut(rc, base, rc[base] + 1)]
         ELSE [skip |-> FALSE, rc |-> MapPut(rc, base, 0)]
    ELSE LET n == IF base \in DOMAIN rc THEN rc[base] ELSE 0
         IN  IF n >= ReEntryLimit THEN [skip |-> TRUE, rc |-> rc]
             ELSE IF kind = "diagonal" THEN [skip |-> FALSE, rc |-> MapPut(rc, base, n + 1)]
             ELSE [skip |-> FALSE, rc |-> rc]

\* The loop of strategy_select_instruments_for_entry over the base instruments.
RECURSIVE SPSelectEntryFrom(_, _, _, _, _)
SPSelectEntryFrom(kind, m, rc, bucket, k) ==
    IF k > Len(bucket) THEN [sel |-> <<>>, rc |-> rc]
    ELSE LET base == bucket[k]
         IN  IF base \in DOMAIN m /\ DOMAIN m[base] # {}
             THEN SPSelectEntryFrom(kind, m, rc, bucket, k + 1)
             ELSE LET e == ReEntry(kind, rc, base)
                      rest == SPSelectEntryFrom(kind, m, e.rc, bucket, k + 1)
                  IN  IF e.skip THEN rest
                      ELSE [sel |-> [j \in 1..Len(Legs) |->
                                        [instrument |-> <<base, Legs[j]>>, action |-> Legs[j],
                                         base_instrument |-> base]] \o rest.sel,
                            rc |-> rest.rc]

\* exit_all_positions_for_base_instrument(base): the legs whose order gets
\* exit_position(), the ledger afterwards, and the exception if any.  The bull
\* call spreads read .get(base).values(), the diagonal spread .get(base, {}).
ExitAll(kind, m, base) ==
    IF base \notin DOMAIN m
    THEN IF kind = "diagonal"
         THEN [exited |-> {}, m |-> m, raised |-> "none"]
         ELSE [exited |-> {}, m |-> m, raised |-> "AttributeError"]
    ELSE [exited |-> {leg \in DOMAIN m[base] : m[base][leg] # NoOrder},
          m |-> MapDel(m, base), raised |-> "none"]

SPCall(op, arg, ltp, ret, raised, placed, exited) ==
    [op |-> op, arg |-> arg, ltp |-> ltp, ret |-> ret, raised |-> raised,
     placed |-> placed, exited |-> exited]

\* __init__ + initialize()
SPInit ==
    /\ sp_kind \in SPKinds
    /\ cimo = EmptyMap
    /\ sp_tsl = TslNone
    /\ re_entry_count = EmptyMap
    /\ sp_ltp = [b \in Bases |-> [leg \in {"BUY", "SELL"} |-> IF leg = "BUY" THEN 3 ELSE 1]]
    /\ sp_entry = <<>>
    /\ sp_exit = [instruments |-> <<>>, meta |-> <<>>]
    /\ sp_call = SPCall("init", "-", "-", "None", "none", "-", {})
    /\ sp_stopped = FALSE

\* The object as it stands while another strategy is the one under study.
SPIdle ==
    /\ sp_kind = "bcs_stoploss"
    /\ cimo = EmptyMap
    /\ sp_tsl = TslNone
    /\ re_entry_count = EmptyMap
    /\ sp_ltp = [b \in Bases |-> [leg \in {"BUY", "SELL"} |-> IF leg = "BUY" THEN 3 ELSE 1]]
    /\ sp_entry = <<>>
    /\ sp_exit = [instruments |-> <<>>, meta |-> <<>>]
    /\ sp_call = SPCall("init", "-", "-", "None", "none", "-", {})
    /\ sp_stopped = FALSE

\* The broker quotes new prices for the legs.
SPTick(l) ==
    /\ ~sp_stopped
    /\ l # sp_ltp
    /\ sp_ltp' = l
    /\ UNCHANGED <<sp_kind, cimo, sp_tsl, re_entry_count, sp_entry, sp_exit, sp_call, sp_stopped>>
    /\ SPFrame

\* strategy_select_instruments_for_entry(candle, instruments_bucket)
SPSelectForEntry(bucket) ==
    /\ ~sp_stopped
    /\ sp_entry = <<>>
    /\ sp_exit.instruments = <<>>
    /\ LET r == SPSelectEntryFrom(sp_kind, cimo, re_entry_count, bucket, 1)
       IN  /\ sp_entry' = r.sel
           /\ re_entry_count' = r.rc
    /\ sp_call' = SPCall("select_entry", bucket, sp_ltp, "-", "none", "-", {})
    /\ UNCHANGED <<sp_kind, cimo, sp_tsl, sp_ltp, sp_exit, sp_stopped>>
    /\ SPFrame

\* setdefault(base_instrument, {})[leg] = _order
StoreOrder(m, base, leg, order) ==
    MapPut(m, base, MapPut(IF base \in DOMAIN m THEN m[base] ELSE EmptyMap, leg, order))

\* strategy_enter_position of the bull call spreads, for the first selected
\* pair not yet entered; outcome is what the broker makes of the order.
EnterBCS(e, order) ==
    IF OrderPlaced(order)
    THEN /\ cimo' = StoreOrder(cimo, e.base_instrument, e.action, order)
         /\ sp_entry' = Tail(sp_entry)
         /\ sp_call' = SPCall("enter", e, sp_ltp, "order", "none", TRUE, {})
         /\ sp_stopped' = FALSE
    ELSE LET x == ExitAll(sp_kind, cimo, e.base_instrument)
         IN  /\ cimo' = x.m
             /\ sp_entry' = <<>>
             /\ sp_call' = SPCall("enter", e, sp_ltp, "-",
                                  IF x.raised # "none" THEN x.raised ELSE "ABSystemExit",
                                  FALSE, x.exited)
             /\ sp_stopped' = TRUE

\* strategy_enter_position of the diagonal spread.
EnterDiagonal(e, order) ==
    LET base == e.base_instrument
        other == IF e.action = "SELL" THEN "BUY" ELSE "SELL"
        partial == /\ base \in DOMAIN cimo
                   /\ DOMAIN cimo[base] # {}
                   /\ ~(other \in DOMAIN cimo[base] /\ cimo[base][other] # NoOrder)
        m1 == StoreOrder(cimo, base, e.action, order)
        x == ExitAll("diagonal", m1, base)
    IN  IF partial
        THEN /\ cimo' = MapDel(cimo, base)
             /\ sp_entry' = Tail(sp_entry)
             /\ sp_call' = SPCall("enter", e, sp_ltp, "None", "none", "-", {})
             /\ sp_stopped' = FALSE
        ELSE IF OrderPlaced(order)
        THEN /\ cimo' = m1
             /\ sp_entry' = Tail(sp_entry)
             /\ sp_call' = SPCall("enter", e, sp_ltp, "order", "none", TRUE, {})
             /\ sp_stopped' = FALSE
        ELSE /\ cimo' = IF order # NoOrder THEN x.m ELSE m1
             /\ sp_entry' = <<>>
             /\ sp_call' = SPCall("enter", e, sp_ltp, IF order # NoOrder THEN "order" ELSE "None",
                                  "none", FALSE, IF order # NoOrder THEN x.exited ELSE {})
             /\ sp_stopped' = TRUE

SPEnterPosition(outcome) ==
    /\ ~sp_stopped
    /\ sp_entry # <<>>
    /\ LET e == Head(sp_entry)
           order == IF outcome = "NONE" THEN NoOrder
                    ELSE [status |-> outcome, entry_price |-> sp_ltp[e.base_instrument][e.action]]
       IN  IF sp_kind = "diagonal" THEN EnterDiagonal(e, order) ELSE EnterBCS(e, order)
    /\ UNCHANGED <<sp_kind, sp_tsl, re_entry_count, sp_ltp, sp_exit>>
    /\ SPFrame

\* strategy_select_instruments_for_exit(candle, instruments_bucket); the bucket
\* holds the child instruments of the given bases.
SPSelectForExit(bucket) ==
    /\ ~sp_stopped
    /\ sp_entry = <<>>
    /\ LET r == SPSelectExitFrom(sp_kind, cimo, sp_tsl, sp_ltp, bucket, 1)
       IN  /\ sp_tsl' = r.t
           /\ sp_exit' = IF r.raised = "none"
                         THEN [instruments |-> r.instruments, meta |-> r.meta]
                         ELSE [instruments |-> <<>>, meta |-> <<>>]
           /\ sp_call' = SPCall("select_exit", bucket, sp_ltp, "-", r.raised, "-", {})
           /\ sp_stopped' = (r.raised # "none")
    /\ UNCHANGED <<sp_kind, cimo, re_entry_count, sp_ltp, sp_entry>>
    /\ SPFrame

\* strategy_exit_position(candle, instrument, meta) for the first selected
\* instrument and the first metadata entry; the host pairs the two lists and
\* stops at the end of the shorter.
SPExitPosition ==
    /\ ~sp_stopped
    /\ sp_exit.instruments # <<>>
    /\ sp_exit.meta # <<>>
    /\ LET meta == Head(sp_exit.meta)
           x == ExitAll(sp_kind, cimo, meta.base_instrument)
           ri == Tail(sp_exit.instruments)
           rm == Tail(sp_exit.meta)
       IN  /\ cimo' = x.m
           /\ sp_call' = SPCall("exit", [instrument |-> Head(sp_exit.instruments), meta |-> meta],
                                sp_ltp, IF x.raised = "none" THEN "True" ELSE "-",
                                x.raised, "-", x.exited)
           /\ sp_stopped' = (x.raised # "none")
           /\ sp_exit' = IF ri = <<>> \/ rm = <<>> \/ x.raised # "none"
                         THEN [instruments |-> <<>>, meta |-> <<>>]
                         ELSE [instruments |-> ri, meta |-> rm]
    /\ UNCHANGED <<sp_kind, sp_tsl, re_entry_count, sp_ltp, sp_entry>>
    /\ SPFrame

SPNext ==
    \/ \E l \in Quotes : SPTick(l)
    \/ \E bucket \in BaseBuckets : SPSelectForEntry(bucket)
    \/ \E outcome \in {"COMPLETE", "REJECTED", "NONE"} : SPEnterPosition(outcome)
    \/ \E bucket \in BaseBuckets : SPSelectForExit(bucket)
    \/ SPExitPosition

-----------------------------------------------------------------------------
(* OBV Breakout decisions on one instrument: longer price series, given position *)

\* Bars with high = low = close at four price levels, with and without volume.
LabBarSet == {[high |-> p, low |-> p, close |-> p, volume |-> v] : p \in 0..3, v \in {0, 1}}

LabMaxBars == 3

\* The strategy objects not under study, as constructed.
NewIdle(g) ==
    /\ IF g = "-" THEN TRUE ELSE OBVIdle /\ XOIdle /\ SPIdle
    /\ IF g = "lab" THEN TRUE ELSE lab_hist = <<>> /\ lab_pos = "-" /\ lab_out = "-"
    /\ IF g = "ma" THEN TRUE
       ELSE /\ ma_kind = "-" /\ ma_mode = "-" /\ ma_series = <<>> /\ ma_hist = <<>>
            /\ ma_order = "-" /\ ma_entry = "-" /\ ma_exit = "-" /\ ma_call = "-"
    /\ IF g = "bb" THEN TRUE ELSE bb_kind = "-" /\ bb_hist = <<>> /\ bb_out = "-"
    /\ IF g = "rx" THEN TRUE
       ELSE /\ rx_kind = "-" /\ rx_limit = 0 /\ rx_bucket = <<>> /\ rx_st = "-" /\ rx_legs = "-"
            /\ rx_price = "-" /\ rx_entry = <<>> /\ rx_exit = <<>> /\ rx_call = "-"
            /\ rx_log = "-" /\ rx_stopped = FALSE
    /\ IF g = "lg" THEN TRUE
       ELSE lg_kind = "-" /\ lg_st = "-" /\ lg_quote = 0 /\ lg_entry = <<>> /\ lg_exit = <<>>

\* A record of positions_data as strategy_enter_position writes it.
InitLab ==
    /\ lab_hist = <<>>
    /\ lab_pos \in [side : {"LONG", "SHORT"}, entry_price : 0..3]
    /\ lab_out = [op |-> "init", val |-> "-"]
    /\ NewIdle("lab")

\* The host appends a bar to the history.
LabNewCandle(b) ==
    /\ Len(lab_hist) < LabMaxBars
    /\ lab_hist' = Append(lab_hist, b)
    /\ lab_out' = [op |-> "new_candle", val |-> "-"]
    /\ UNCHANGED lab_pos
    /\ NewFrame("lab")

\* The exit test of strategy_select_instruments_for_exit on the position.
LabExitDecision ==
    /\ lab_out' = [op |-> "exit_decision", val |-> ExitDecision(lab_hist, lab_pos)]
    /\ UNCHANGED <<lab_hist, lab_pos>>
    /\ NewFrame("lab")

\* is_price_breakout(hist_data) of the pool copy (v = "pool") or the legacy copy.
LabPriceBreakout(v) ==
    /\ v = "pool" \/ lab_hist # <<>>
    /\ lab_out' = [op |-> "is_price_breakout", val |-> IsPriceBreakout(v, lab_hist), version |-> v]
    /\ UNCHANGED <<lab_hist, lab_pos>>
    /\ NewFrame("lab")

LabNext ==
    \/ \E b \in LabBarSet : LabNewCandle(b)
    \/ LabExitDecision
    \/ \E v \in {"pool", "legacy"} : LabPriceBreakout(v)

SpecLab == InitLab /\ [][LabNext]_vars

-----------------------------------------------------------------------------
(* Crossover strategies on one instrument, with the two series they compare *)

\* TIMEPERIOD1 and TIMEPERIOD2 of the SMA strategy.
FastPeriod == 2
SlowPeriod == 4

\* The value talib gives while a moving average has too few bars.
NaN == -1

\* talib.SMA(close, timeperiod) at bar k, times `scale` (so that the fast and
\* the slow average compare as integers).
SmaTimes(h, period, k, scale) ==
    LET RECURSIVE S(_)
        S(j) == IF j > k THEN 0 ELSE h[j] + S(j + 1)
    IN  IF k < period THEN NaN ELSE scale * S(k - period + 1)

\* utils.crossover(A, B) from the previous and the current value of each series:
\* 1 when A was <= B and is > B, -1 when A was >= B and is < B, else 0; a
\* comparison with a missing value does not hold.
Crossover(a_prev, a_cur, b_prev, b_cur) ==
    IF NaN \in {a_prev, a_cur, b_prev, b_cur} THEN 0
    ELSE IF a_prev <= b_prev /\ a_cur > b_cur THEN 1
    ELSE IF a_prev >= b_prev /\ a_cur < b_cur THEN -1
    ELSE 0

\* PUT_CALL_RATIO_BULLISH and PUT_CALL_RATIO_BEARISH (defaults), in tenths.
PcrBullish == 7
PcrBearish == 13

\* _get_child_instrument_based_on_pcr: the put-call ratio is sum_oi_pe /
\* sum_oi_ce; 1 when it is >= the bearish level (the ATM CE, "BEARISH"), -1 when
\* it is <= the bullish level (the ATM PE, "BULLISH"), 0 when neither (None, None).
PcrSentiment(sum_oi_pe, sum_oi_ce) ==
    IF NaN \in {sum_oi_pe, sum_oi_ce} THEN 0
    ELSE IF 10 * sum_oi_pe >= PcrBearish * sum_oi_ce THEN 1
    ELSE IF 10 * sum_oi_pe <= PcrBullish * sum_oi_ce THEN -1
    ELSE 0

\* get_crossover_value(instrument): the SMA strategy compares SMA(fast) with
\* SMA(slow) of the closes; the others compare the two series the history holds
\* (EMA pair, close and VWAP, Heikin Ashi close and its SMA).  For the put-call
\* ratio strategy the history holds the open interest of the puts and of the
\* calls, and the value is the sentiment of the latest candle.
MACrossoverValue(kind, h) ==
    LET n == Len(h)
    IN  IF kind = "put_call_ratio" THEN PcrSentiment(h[n][1], h[n][2])
        ELSE IF n < 2 THEN 0
        ELSE IF kind = "sma_bracket"
        THEN Crossover(SmaTimes(h, FastPeriod, n - 1, SlowPeriod), SmaTimes(h, FastPeriod, n, SlowPeriod),
                       SmaTimes(h, SlowPeriod, n - 1, FastPeriod), SmaTimes(h, SlowPeriod, n, FastPeriod))
        ELSE Crossover(h[n - 1][1], h[n][1], h[n - 1][2], h[n][2])

\* Mutant: the SMA selector maps the crossover the other way round.
MAEntryActionSwapped(kind, mode, cv, order) ==
    IF cv = -1 THEN "BUY" ELSE IF cv = 1 /\ mode = "INTRADAY" THEN "SELL" ELSE "-"

\* Mutant: the selector does not look at strategy_mode.
MAEntryActionAnyMode(kind, mode, cv, order) ==
    IF cv = 1 THEN "BUY" ELSE IF cv = -1 THEN "SELL" ELSE "-"

\* The entry selector for the instrument: the action it selects, "-" if none.
\*  sma_bracket, ema_compact: 1 -> BUY, -1 -> SELL in INTRADAY mode only
\*  inverse_ema:              -1 -> BUY, 1 -> SELL in INTRADAY mode only
\*  vwap_intraday:            only without an order; 1 -> BUY, -1 -> SELL
\*  sma_heikin_ashi:          only without an order; 1 -> BUY, -1 -> SELL in
\*                            INTRADAY mode only
\*  put_call_ratio:           only without an order; BUY of the child instrument
\*                            of the sentiment (1 the CE, -1 the PE)
MAEntryAction(kind, mode, cv, order) ==
    IF kind = "vwap_intraday"
    THEN (IF order # None THEN "-" ELSE IF cv = 1 THEN "BUY" ELSE IF cv = -1 THEN "SELL" ELSE "-")
    ELSE IF kind = "put_call_ratio"
    THEN (IF order # None THEN "-" ELSE IF cv = 1 THEN "BUY CE" ELSE IF cv = -1 THEN "BUY PE" ELSE "-")
    ELSE IF kind = "sma_heikin_ashi" /\ order # None
    THEN "-"
    ELSE IF kind = "inverse_ema"
    THEN (IF cv = -1 THEN "BUY" ELSE IF cv = 1 /\ mode = "INTRADAY" THEN "SELL" ELSE "-")
    ELSE (IF cv = 1 THEN "BUY" ELSE IF cv = -1 /\ mode = "INTRADAY" THEN "SELL" ELSE "-")

\* Mutant: the put-call ratio strategy exits on every sentiment.
MAExitActionAnySentiment(kind, cv, order) ==
    IF order # None /\ cv \in {1, -1} THEN "EXIT" ELSE "-"

\* The exit selector: EXIT when an order is held (VWAP, Heikin Ashi: and
\* COMPLETE) and the crossover is 1 or -1; Heikin Ashi exits on EXIT_SELL (1)
\* with a SELL order and on EXIT_BUY (-1) with a BUY order.  The put-call ratio
\* strategy takes the sentiment of the held order from its instrument (CE
\* "BEARISH", PE "BULLISH") and exits when the ratio gives a child instrument
\* and another sentiment; the instrument it appends is that child instrument.
MAExitAction(kind, cv, order) ==
    IF kind = "put_call_ratio"
    THEN (IF order = None THEN "-"
          ELSE IF cv = 1 /\ order.action # "BUY CE" THEN "EXIT CE"
          ELSE IF cv = -1 /\ order.action # "BUY PE" THEN "EXIT PE"
          ELSE "-")
    ELSE
    IF /\ order # None
       /\ (kind \in {"vwap_intraday", "sma_heikin_ashi"} => order.status = "COMPLETE")
       /\ cv \in {1, -1}
       /\ (kind = "sma_heikin_ashi" => order.action = (IF cv = 1 THEN "SELL" ELSE "BUY"))
    THEN "EXIT" ELSE "-"

MACall(op, cv, ret) == [op |-> op, n |-> Len(ma_hist), cv |-> cv, ret |-> ret]

\* __init__ + initialize(); main_order = {} (a missing key reads as None).
InitMA ==
    /\ ma_kind \in {"sma_bracket", "ema_compact", "inverse_ema", "vwap_intraday", "sma_heikin_ashi",
                    "put_call_ratio"}
    /\ ma_mode \in {"INTRADAY", "DELIVERY"}
    /\ ma_series \in IF ma_kind = "sma_bracket"
                     THEN {<<10, 10, 10, 12, 14, 16, 14, 12, 10, 8>>,
                           <<10, 10, 10, 10, 12, 14, 16, 14, 12, 10, 8>>}
                     ELSE {<<>>}
    /\ ma_hist = <<>>
    /\ ma_order = None
    /\ ma_entry = "-"
    /\ ma_exit = "-"
    /\ ma_call = MACall("init", 0, "-")
    /\ NewIdle("ma")

\* The broker has filled the order placed on an earlier candle.
Filled(order) == IF order = None THEN None ELSE [order EXCEPT !.status = "COMPLETE"]

\* Host: the next bar of the close series (SMA strategy).
MANextClose ==
    /\ ma_kind = "sma_bracket"
    /\ ma_entry = "-" /\ ma_exit = "-"
    /\ Len(ma_hist) < Len(ma_series)
    /\ ma_hist' = Append(ma_hist, ma_series[Len(ma_hist) + 1])
    /\ ma_order' = Filled(ma_order)
    /\ UNCHANGED <<ma_kind, ma_mode, ma_series, ma_entry, ma_exit, ma_call>>
    /\ NewFrame("ma")

\* Host: the next candle, with the values of the two series on it.
MATick(x) ==
    /\ ma_kind # "sma_bracket"
    /\ ma_entry = "-" /\ ma_exit = "-"
    /\ ma_hist' = IF ma_hist = <<>> THEN <<x>> ELSE <<ma_hist[Len(ma_hist)], x>>
    /\ ma_order' = Filled(ma_order)
    /\ UNCHANGED <<ma_kind, ma_mode, ma_series, ma_entry, ma_exit, ma_call>>
    /\ NewFrame("ma")

\* strategy_select_instruments_for_entry(candle, [instrument])
MASelectForEntry ==
    /\ ma_entry = "-" /\ ma_exit = "-"
    /\ ma_kind = "put_call_ratio" => ma_hist # <<>>
    /\ LET cv == MACrossoverValue(ma_kind, ma_hist)
           a == MAEntryAction(ma_kind, ma_mode, cv, ma_order)
       IN  ma_entry' = a /\ ma_call' = MACall("select_entry", cv, a)
    /\ UNCHANGED <<ma_kind, ma_mode, ma_series, ma_hist, ma_order, ma_exit>>
    /\ NewFrame("ma")

\* strategy_enter_position: main_order[instrument] = the broker's order
MAEnterPosition ==
    /\ ma_entry # "-"
    /\ ma_order' = [action |-> ma_entry, status |-> "OPEN"]
    /\ ma_entry' = "-"
    /\ ma_call' = MACall("enter", 0, "order")
    /\ UNCHANGED <<ma_kind, ma_mode, ma_series, ma_hist, ma_exit>>
    /\ NewFrame("ma")

\* strategy_select_instruments_for_exit(candle, [instrument])
MASelectForExit ==
    /\ ma_entry = "-" /\ ma_exit = "-"
    /\ ma_kind = "put_call_ratio" => ma_hist # <<>>
    /\ LET cv == MACrossoverValue(ma_kind, ma_hist)
           a == MAExitAction(ma_kind, cv, ma_order)
       IN  ma_exit' = a /\ ma_call' = MACall("select_exit", cv, a)
    /\ UNCHANGED <<ma_kind, ma_mode, ma_series, ma_hist, ma_order, ma_entry>>
    /\ NewFrame("ma")

\* strategy_exit_position with action EXIT: exit the order, clear the entry,
\* return True.
MAExitPosition ==
    /\ ma_exit # "-"
    /\ ma_order' = None
    /\ ma_exit' = "-"
    /\ ma_call' = MACall("exit", 0, "True")
    /\ UNCHANGED <<ma_kind, ma_mode, ma_series, ma_hist, ma_entry>>
    /\ NewFrame("ma")

MANext ==
    \/ MANextClose
    \/ \E x \in {NaN, 1, 2} \X {NaN, 1, 2} : MATick(x)
    \/ MASelectForEntry
    \/ MAEnterPosition
    \/ MASelectForExit
    \/ MAExitPosition

SpecMA == InitMA /\ [][MANext]_vars

-----------------------------------------------------------------------------
(* Bollinger Bands: get_decision of the intraday and the mean reversion strategy *)

\* TIME_PERIOD and STANDARD_DEVIATIONS.
TimePeriod == 2
StdDeviations == 1

BBMaxBars == 3

\* Candles: low <= open, close <= high, three price levels.
BBBarSet ==
    {b \in [open : 0..2, high : 0..2, low : 0..2, close : 0..2] :
        b.low <= b.open /\ b.low <= b.close /\ b.open <= b.high /\ b.close <= b.high}

\* x against the band talib.BBANDS(close, TimePeriod, StdDeviations) has at bar
\* k: x <= lower band (side "lower"), x >= upper band (side "upper").  The band
\* is mean -/+ StdDeviations * sigma of the last TimePeriod closes; with S the
\* sum and Q the sum of squares of those closes, x <= lower iff
\* S - N*x >= 0 and (S - N*x)^2 >= StdDeviations^2 * (N*Q - S^2).  Before bar
\* TimePeriod the band is undefined and no comparison holds.
AtBand(side, x, h, k) ==
    LET N == TimePeriod
        RECURSIVE S(_)
        S(j) == IF j > k THEN 0 ELSE h[j].close + S(j + 1)
        RECURSIVE Q(_)
        Q(j) == IF j > k THEN 0 ELSE h[j].close * h[j].close + Q(j + 1)
        s == S(k - N + 1)
        q == Q(k - N + 1)
        d == IF side = "lower" THEN s - N * x ELSE N * x - s
    IN  /\ k >= N
        /\ d >= 0
        /\ d * d >= StdDeviations * StdDeviations * (N * q - s * s)

\* get_decision(instrument): the band values are those of the latest bar.
GetDecision(kind, h) ==
    LET n == Len(h)
        latest == h[n]
        prev == h[n - 1]
        lower(x) == AtBand("lower", x, h, n)
        upper(x) == AtBand("upper", x, h, n)
    IN  IF n < 2 THEN "IndexError"
        ELSE IF kind = "bollinger_intraday"
        THEN (IF (lower(prev.open) \/ lower(prev.high) \/ lower(prev.low) \/ lower(prev.close))
                 /\ latest.close > prev.close THEN "BUY"
              ELSE IF (upper(prev.open) \/ upper(prev.high) \/ upper(prev.low) \/ upper(prev.close))
                 /\ latest.close < prev.close THEN "SELL"
              ELSE "None")
        ELSE (IF (lower(prev.open) \/ lower(prev.low)) /\ latest.close > prev.close THEN "BUY"
              ELSE IF (upper(prev.open) \/ upper(prev.close)) /\ latest.close < prev.close THEN "SELL"
              ELSE "None")

InitBB ==
    /\ bb_kind \in {"bollinger_intraday", "mean_reversion_intraday"}
    /\ bb_hist = <<>>
    /\ bb_out = [op |-> "init", val |-> "-"]
    /\ NewIdle("bb")

\* Host: one more candle in the history.
BBNewCandle(b) ==
    /\ Len(bb_hist) < BBMaxBars
    /\ bb_hist' = Append(bb_hist, b)
    /\ bb_out' = [op |-> "new_candle", val |-> "-"]
    /\ UNCHANGED bb_kind
    /\ NewFrame("bb")

\* A selector calls get_decision(instrument).
BBGetDecision ==
    /\ bb_hist # <<>>
    /\ bb_out' = [op |-> "get_decision", val |-> GetDecision(bb_kind, bb_hist)]
    /\ UNCHANGED <<bb_kind, bb_hist>>
    /\ NewFrame("bb")

BBNext ==
    \/ \E b \in BBBarSet : BBNewCandle(b)
    \/ BBGetDecision

SpecBB == InitBB /\ [][BBNext]_vars

-----------------------------------------------------------------------------
(* Options strategies with re-entry: bull call spread with target stops,
   short call butterfly, short iron butterfly, long iron condor *)

IronKinds == {"iron_butterfly", "iron_condor"}

\* The number of legs of one entry (leg_wise_list).
NumLegs(kind) == IF kind = "bcs_target" THEN 2 ELSE IF kind = "butterfly" THEN 3 ELSE 4

\* PRICE_BREACH_UPPER_OFFSET / RE_ENTRY_UPPER_LEVEL and the lower ones, both allowed.
UpperOffset == 2
LowerOffset == 2

\* Prices the broker quotes for a base instrument.
RXPrices == {1, 3, 5}

\* Host: how many complete entries per base a run of the butterfly goes on for.
MaxEntries == 3

\* TARGET_PERCENTAGE of the bull call spread with target stops.
TargetPercentage == 200

\* A key that a dict does not hold.
Unset == -1

\* The fields after initialize().
\*  bcs_target: re_entry_count (base -> {'reentry_count', 'reentry_recorded'},
\*              present once the selector has seen the base), reentry_complete,
\*              execution_complete; spread_entry, highest and trailing_stop
\*              (times 100) per base; fill: entry price of the BUY leg order
\*              minus that of the SELL leg order; mapped: the instruments
\*              mapper holds a child instrument of the base (add_mappings
\*              was called for it)
\*  butterfly:  reentry_left (base -> count; -1 for a missing key)
\*  iron_*:     the two breach flags and base_price_post_breach / reference_price
\*              (0 for None)
RXState0(kind) ==
    IF kind = "bcs_target"
    THEN [re_entry_count |-> [b \in Bases |-> [present |-> FALSE, reentry_count |-> 0,
                                               reentry_recorded |-> FALSE]],
          reentry_complete |-> [b \in Bases |-> FALSE],
          execution_complete |-> FALSE,
          fill |-> [b \in Bases |-> 0],
          mapped |-> [b \in Bases |-> FALSE],
          spread_entry |-> [b \in Bases |-> Unset],
          highest |-> [b \in Bases |-> Unset],
          trailing_stop |-> [b \in Bases |-> Unset]]
    ELSE IF kind = "butterfly"
    THEN [reentry_left |-> [b \in Bases |-> -1]]
    ELSE [upper |-> FALSE, lower |-> FALSE, ref |-> 0]

\* One round of the entry selector's loop, for base b: whether the legs of b
\* are selected, and the fields afterwards.
RXEntryStep(kind, st, legs, price, limit, bucket, b) ==
    IF kind = "bcs_target"
    THEN IF st.reentry_complete[b] \/ legs[b] > 0 THEN [take |-> FALSE, st |-> st]
         ELSE LET s1 == [st EXCEPT !.re_entry_count[b].present = TRUE]
              IN  IF s1.re_entry_count[b].reentry_count >= limit + 1
                  THEN LET s2 == [s1 EXCEPT !.reentry_complete[b] = TRUE]
                       IN  [take |-> FALSE,
                            st |-> IF \A k \in DOMAIN bucket : s2.reentry_complete[bucket[k]]
                                   THEN [s2 EXCEPT !.execution_complete = TRUE]
                                   ELSE s2]
                  ELSE [take |-> TRUE, st |-> s1]
    ELSE IF kind = "butterfly"
    THEN LET left == IF st.reentry_left[b] \in {-1, 0} THEN limit ELSE st.reentry_left[b] - 1
         IN  [take |-> legs[b] = 0 /\ left > 0,
              st |-> [st EXCEPT !.reentry_left[b] = left]]
    ELSE LET upper_re_entry == st.upper /\ st.ref - price[b] >= UpperOffset
             lower_re_entry == st.lower /\ price[b] - st.ref >= LowerOffset
             empty_orders == \A i \in Bases : legs[i] = 0
             triggered == st.upper \/ st.lower
         IN  [take |-> empty_orders /\ (upper_re_entry \/ lower_re_entry \/ ~triggered),
              st |-> IF triggered THEN [st EXCEPT !.upper = FALSE, !.lower = FALSE] ELSE st]

\* How the host resolves the child instruments of a base in one call: both
\* legs, the BUY leg only, or not even the BUY leg.
RXResolutions == {"both", "buy_only", "none"}

\* The leg loop of the bull call spread's entry selector for base b (a child
\* instrument is <<base, leg number>>): the two lists and the fields
\* afterwards, or the ValueError of list.index. The first child the mapper
\* holds for a base is its BUY leg child, the first ever mapped.
RXLegLoop(acc, b, res) ==
    LET other == <<b, 1>>
        Index(q, x) == SetMin({j \in DOMAIN q : q[j] = x})
        Without(q, i) == [j \in 1..(Len(q) - 1) |-> IF j < i THEN q[j] ELSE q[j + 1]]
        CleanUp(a) ==
            IF ~a.st.mapped[b] THEN a
            ELSE IF \A j \in DOMAIN a.ins : a.ins[j] # other
            THEN [a EXCEPT !.raised = TRUE]
            ELSE [a EXCEPT !.meta = Without(@, Index(a.ins, other)),
                           !.ins = Without(@, Index(a.ins, other))]
        Add(a, leg, action) ==
            [a EXCEPT !.st.mapped[b] = TRUE,
                      !.ins = Append(@, <<b, leg>>),
                      !.meta = Append(@, [action |-> action, base_instrument |-> b])]
    IN  IF res = "none" THEN CleanUp(acc)
        ELSE IF res = "buy_only" THEN CleanUp(Add(acc, 1, "BUY"))
        ELSE [Add(Add(acc, 1, "BUY"), 2, "SELL") EXCEPT !.sel = Append(@, b)]

\* The loop of strategy_select_instruments_for_entry over the bucket; acc
\* holds the fields, selected_instruments (ins) and meta so far, and sel, the
\* bases all of whose legs were appended.
RECURSIVE RXSelectEntryFrom(_, _, _, _, _, _, _, _)
RXSelectEntryFrom(kind, acc, legs, price, limit, bucket, res, k) ==
    IF k > Len(bucket) \/ acc.raised THEN acc
    ELSE LET b == bucket[k]
             e == RXEntryStep(kind, acc.st, legs, price, limit, bucket, b)
             a1 == [acc EXCEPT !.st = e.st]
             a2 == IF ~e.take THEN a1
                   ELSE IF kind = "bcs_target" THEN RXLegLoop(a1, b, res[b])
                   ELSE [a1 EXCEPT !.sel = Append(@, b),
                                   !.ins = @ \o [j \in 1..NumLegs(kind) |-> <<b, j>>],
                                   !.meta = @ \o [j \in 1..NumLegs(kind) |-> [action |-> "-", base_instrument |-> b]]]
         IN  RXSelectEntryFrom(kind, a2, legs, price, limit, bucket, res, k + 1)

\* Mutant: the count goes up with every leg order.
RecordEntryPerLeg(rc) ==
    [rc EXCEPT !.reentry_count = rc.reentry_count + 1, !.reentry_recorded = TRUE]

\* strategy_enter_position of the bull call spread: "increment re-entry count
\* only once per complete entry".
RecordEntry(rc) ==
    IF ~rc.reentry_recorded
    THEN [rc EXCEPT !.reentry_count = rc.reentry_count + 1, !.reentry_recorded = TRUE]
    ELSE rc

\* The fields after exit_all_positions_for_base_instrument(b).
RXExitAllState(kind, st, b) ==
    IF kind = "bcs_target"
    THEN [st EXCEPT !.re_entry_count[b].reentry_recorded = FALSE,
                    !.spread_entry[b] = Unset, !.highest[b] = Unset, !.trailing_stop[b] = Unset]
    ELSE st

\* The fields after strategy_enter_position for a leg of b; ok: the order was
\* placed (and, for the butterfly, is complete).
RXEnterState(kind, st, b, ok, price) ==
    LET s1 == IF kind \in IronKinds THEN [st EXCEPT !.ref = price[b]] ELSE st
    IN  IF ~ok THEN RXExitAllState(kind, s1, b)
        ELSE IF kind = "bcs_target"
        THEN [s1 EXCEPT !.re_entry_count[b] = RecordEntry(s1.re_entry_count[b]),
                        !.fill[b] = price[b]]
        ELSE s1

\* Mutant: the trailing stop is activated at the first check.
CheckExitActivatedAtOnce(st, b, cur) ==
    LET stop == cur * (100 - TslPercentage)
        s1 == [st EXCEPT !.spread_entry[b] = st.fill[b], !.highest[b] = cur, !.trailing_stop[b] = stop]
    IN  [hit |-> FALSE, st |-> s1]

\* _check_exit_conditions(base_instrument, orders) of the bull call spread with
\* target stops; cur is the current spread, ltp of the BUY leg minus ltp of the
\* SELL leg.
CheckExitTargetStops(st, b, cur) ==
    LET entry == IF st.spread_entry[b] = Unset THEN st.fill[b] ELSE st.spread_entry[b]
        s1 == [st EXCEPT !.spread_entry[b] = entry]
        target_hit == cur * 100 > entry * (100 + TargetPercentage)
        stoploss_hit == cur * 100 < entry * (100 - StoplossPercentage)
        one_minus_tsl == 100 - TslPercentage
        s2 == IF s1.highest[b] = Unset /\ cur * one_minus_tsl >= entry * 100
              THEN [s1 EXCEPT !.highest[b] = cur, !.trailing_stop[b] = cur * one_minus_tsl]
              ELSE s1
        s3 == IF s2.highest[b] # Unset /\ cur > s2.highest[b]
              THEN [s2 EXCEPT !.highest[b] = cur, !.trailing_stop[b] = cur * one_minus_tsl]
              ELSE s2
    IN  IF target_hit \/ stoploss_hit THEN [hit |-> TRUE, st |-> s1]
        ELSE [hit |-> s3.highest[b] # Unset /\ cur * 100 < s3.trailing_stop[b], st |-> s3]

\* check_exit_condition(b) / _check_exit_conditions(b, orders): whether the
\* position is to be closed, and the fields afterwards.  For the iron
\* strategies it is the breach of the underlying; for the bull call spread the
\* target, stop-loss and trailing stop on the spread (price[b] is the spread
\* the broker quotes); for the butterfly the price exits on the leg premiums,
\* which the broker's quotes decide (quoted).
RXExitCheck(kind, st, price, b, quoted) ==
    IF kind \in IronKinds
    THEN LET up == price[b] - st.ref >= UpperOffset
             lo == st.ref - price[b] >= LowerOffset
         IN  [hit |-> up \/ lo,
              st |-> [upper |-> up, lower |-> lo, ref |-> IF up \/ lo THEN price[b] ELSE st.ref]]
    ELSE IF kind = "bcs_target" THEN CheckExitTargetStops(st, b, price[b])
    ELSE [hit |-> quoted, st |-> st]

\* The loop of strategy_select_instruments_for_exit over the bases whose legs
\* are in the bucket, each processed once.
RECURSIVE RXSelectExitFrom(_, _, _, _, _, _, _)
RXSelectExitFrom(kind, st, legs, price, quoted, bucket, k) ==
    IF k > Len(bucket) THEN [sel |-> <<>>, st |-> st]
    ELSE IF legs[bucket[k]] = 0 THEN RXSelectExitFrom(kind, st, legs, price, quoted, bucket, k + 1)
    ELSE LET c == RXExitCheck(kind, st, price, bucket[k], quoted)
             rest == RXSelectExitFrom(kind, c.st, legs, price, quoted, bucket, k + 1)
         IN  [sel |-> (IF c.hit THEN Repeat(bucket[k], legs[bucket[k]]) ELSE <<>>) \o rest.sel,
              st |-> rest.st]

RXCall(op, arg, sel) == [op |-> op, arg |-> arg, sel |-> sel]

\* __init__ (validate_parameters accepts the limit) + initialize()
InitRX ==
    /\ rx_kind \in {"bcs_target", "butterfly"} \cup IronKinds
    /\ rx_limit \in IF rx_kind = "bcs_target" THEN {1, 2} ELSE IF rx_kind = "butterfly" THEN {0, 1, 2} ELSE {0}
    /\ rx_bucket \in BaseBuckets
    /\ rx_st = RXState0(rx_kind)
    /\ rx_legs = [b \in Bases |-> 0]
    /\ rx_price = [b \in Bases |-> 3]
    /\ rx_entry = <<>>
    /\ rx_exit = <<>>
    /\ rx_call = RXCall("init", "-", <<>>)
    /\ rx_log = [done |-> [b \in Bases |-> 0], breach |-> "-"]
    /\ rx_stopped = FALSE
    /\ NewIdle("rx")

\* The broker quotes a new price for a base instrument.
RXTick(b, p) ==
    /\ ~rx_stopped
    /\ rx_kind # "butterfly"
    /\ rx_entry = <<>> /\ rx_exit = <<>>
    /\ p # rx_price[b]
    /\ rx_price' = [rx_price EXCEPT ![b] = p]
    /\ UNCHANGED <<rx_kind, rx_limit, rx_bucket, rx_st, rx_legs, rx_entry, rx_exit, rx_call, rx_log, rx_stopped>>
    /\ NewFrame("rx")

\* strategy_select_instruments_for_entry(candle, instruments_bucket); the host
\* pairs the two returned lists. The strategies other than the bull call spread
\* do not test the child instrument.
RXSelectForEntry(res) ==
    /\ ~rx_stopped
    /\ rx_entry = <<>> /\ rx_exit = <<>>
    /\ rx_kind = "butterfly" => \A b \in Bases : rx_log.done[b] < MaxEntries
    /\ rx_kind # "bcs_target" => \A b \in Bases : res[b] = "both"
    /\ LET r == RXSelectEntryFrom(rx_kind, [st |-> rx_st, ins |-> <<>>, meta |-> <<>>, sel |-> <<>>, raised |-> FALSE],
                                  rx_legs, rx_price, rx_limit, rx_bucket, res, 1)
           n == IF Len(r.ins) < Len(r.meta) THEN Len(r.ins) ELSE Len(r.meta)
       IN  /\ rx_st' = r.st
           /\ rx_entry' = IF r.raised THEN <<>>
                          ELSE [j \in 1..n |-> [base_instrument |-> r.meta[j].base_instrument, leg |-> r.ins[j][2]]]
           /\ rx_call' = RXCall("select_entry", rx_bucket, IF r.raised THEN <<>> ELSE r.sel)
           /\ rx_stopped' = r.raised
    /\ UNCHANGED <<rx_kind, rx_limit, rx_bucket, rx_legs, rx_price, rx_exit, rx_log>>
    /\ NewFrame("rx")

\* strategy_enter_position for the first selected leg not yet entered.  A
\* failed order: the other legs of the base are exited; the bull call spread
\* and the iron strategies raise ABSystemExit, the butterfly returns.
RXEnterPosition(ok) ==
    /\ ~rx_stopped
    /\ rx_entry # <<>>
    /\ LET e == Head(rx_entry)
           b == e.base_instrument
           held == IF ok THEN rx_legs[b] + 1 ELSE 0
       IN  /\ rx_st' = RXEnterState(rx_kind, rx_st, b, ok, rx_price)
           /\ rx_legs' = [rx_legs EXCEPT ![b] = held]
           /\ rx_log' = [done |-> IF held = NumLegs(rx_kind) /\ rx_kind \notin IronKinds
                                  THEN [rx_log.done EXCEPT ![b] = @ + 1] ELSE rx_log.done,
                         breach |-> IF rx_kind \in IronKinds THEN "-" ELSE rx_log.breach]
           /\ rx_call' = RXCall("enter", [base_instrument |-> b, leg |-> e.leg, ok |-> ok], <<>>)
           /\ rx_stopped' = (~ok /\ rx_kind # "butterfly")
           /\ rx_entry' = IF ~ok /\ rx_kind # "butterfly" THEN <<>> ELSE Tail(rx_entry)
    /\ UNCHANGED <<rx_kind, rx_limit, rx_bucket, rx_price, rx_exit>>
    /\ NewFrame("rx")

\* strategy_select_instruments_for_exit(candle, the legs held)
RXSelectForExit(quoted) ==
    /\ ~rx_stopped
    /\ rx_entry = <<>> /\ rx_exit = <<>>
    /\ rx_kind # "butterfly" => ~quoted
    /\ LET r == RXSelectExitFrom(rx_kind, rx_st, rx_legs, rx_price, quoted, rx_bucket, 1)
       IN  /\ rx_st' = r.st
           /\ rx_exit' = r.sel
           /\ rx_call' = RXCall("select_exit", rx_bucket, r.sel)
           /\ rx_log' = [rx_log EXCEPT !.breach = IF rx_kind \in IronKinds /\ r.sel # <<>>
                                                  THEN (IF r.st.upper THEN "upper" ELSE "lower")
                                                  ELSE @]
    /\ UNCHANGED <<rx_kind, rx_limit, rx_bucket, rx_legs, rx_price, rx_entry, rx_stopped>>
    /\ NewFrame("rx")

\* strategy_exit_position(candle, instrument, meta): exits every leg of
\* meta['base_instrument'] and returns True.
RXExitPosition ==
    /\ ~rx_stopped
    /\ rx_exit # <<>>
    /\ LET b == Head(rx_exit)
       IN  /\ rx_st' = RXExitAllState(rx_kind, rx_st, b)
           /\ rx_legs' = [rx_legs EXCEPT ![b] = 0]
           /\ rx_call' = RXCall("exit", [base_instrument |-> b], <<>>)
    /\ rx_exit' = Tail(rx_exit)
    /\ UNCHANGED <<rx_kind, rx_limit, rx_bucket, rx_price, rx_entry, rx_log, rx_stopped>>
    /\ NewFrame("rx")

RXNext ==
    \/ \E b \in Bases, p \in RXPrices : RXTick(b, p)
    \/ \E res \in [Bases -> RXResolutions] : RXSelectForEntry(res)
    \/ \E ok \in BOOLEAN : RXEnterPosition(ok)
    \/ \E quoted \in BOOLEAN : RXSelectForExit(quoted)
    \/ RXExitPosition

SpecRX == InitRX /\ [][RXNext]_vars

-----------------------------------------------------------------------------
(* Options strategies that track their leg orders:
   strategy_options_greek_delta_target_stoploss_intraday/_strategy.py,
   strategy_short_straddle_otm_regular_order.py, options_box_spread/_strategy.py.
   One base instrument; an order is its broker status. *)

LGKinds == {"greek_delta", "short_straddle", "box_spread"}

\* The child instruments of the base instrument.
LGLegs(kind) ==
    CASE kind = "greek_delta" -> <<"OPT">>
      [] kind = "short_straddle" -> <<"CE", "PE">>
      [] OTHER -> <<"L1", "L2", "L3", "L4">>

\* DELTA_MIN = 0.2 and DELTA_MAX = 0.25, in units of 0.05.
DeltaMin == 4

DeltaMax == 5

\* EXIT_THRESHOLD = 0.01, in units of 0.005.
ExitThreshold == 2

\* The host's reading: abs-able delta of the child instrument (units of 0.05),
\* minutes past candle_end_time, market cost minus theoretical cost of the box
\* (units of 0.005).
LGQuotes == {-4, -1, 0, 1, 4}

\* The fields after initialize(). placed and cancelled (of the current main
\* order), held and closed are histories of what was asked of the broker.
LGState0(kind) ==
    CASE kind = "greek_delta" ->
            [main |-> "NONE", stoploss |-> "NONE", target |-> "NONE",
             placed |-> [stoploss |-> 0, target |-> 0], cancelled |-> {}]
      [] kind = "short_straddle" ->
            [day_start |-> "None", first_order_is_done |-> FALSE,
             main_order |-> EmptyMap, tracked |-> {},
             stoploss |-> [l \in {"CE", "PE"} |-> "NONE"]]
      [] OTHER ->
            [done |-> FALSE, open |-> FALSE, held |-> {}, closed |-> {}]

InitLG ==
    /\ lg_kind \in LGKinds
    /\ lg_st = LGState0(lg_kind)
    /\ lg_quote \in LGQuotes
    /\ lg_entry = <<>>
    /\ lg_exit = <<>>
    /\ NewIdle("lg")

\* The market and the clock move.
LGTick(q) ==
    /\ lg_quote' = q
    /\ UNCHANGED <<lg_kind, lg_st, lg_entry, lg_exit>>
    /\ NewFrame("lg")

\* The broker completes an open order.
LGFill(name, leg) ==
    /\ CASE lg_kind = "greek_delta" ->
               /\ lg_st[name] = "OPEN"
               /\ lg_st' = [lg_st EXCEPT ![name] = "COMPLETE"]
         [] lg_kind = "short_straddle" ->
               IF name = "main"
               THEN /\ leg \in DOMAIN lg_st.main_order
                    /\ lg_st.main_order[leg] = "OPEN"
                    /\ lg_st' = [lg_st EXCEPT !.main_order[leg] = "COMPLETE"]
               ELSE /\ name = "stoploss"
                    /\ leg \in DOMAIN lg_st.stoploss
                    /\ lg_st.stoploss[leg] = "OPEN"
                    /\ lg_st' = [lg_st EXCEPT !.stoploss[leg] = "COMPLETE"]
         [] OTHER -> FALSE
    /\ UNCHANGED <<lg_kind, lg_quote, lg_entry, lg_exit>>
    /\ NewFrame("lg")

LGSelectForEntry ==
    /\ lg_entry = <<>>
    /\ lg_exit = <<>>
    /\ CASE lg_kind = "greek_delta" ->
               /\ lg_entry' = IF lg_st.main = "NONE" /\ DeltaMin <= Abs(lg_quote) /\ Abs(lg_quote) <= DeltaMax
                              THEN <<[order |-> "main", leg |-> "OPT"]>>
                              ELSE <<>>
               /\ lg_st' = lg_st
         [] lg_kind = "short_straddle" ->
               IF ~(lg_quote >= 0)
               THEN lg_entry' = <<>> /\ lg_st' = lg_st
               ELSE IF lg_st.day_start = "None"
               THEN lg_entry' = <<>> /\ lg_st' = [lg_st EXCEPT !.day_start = "False"]
               ELSE IF ~lg_st.first_order_is_done
               THEN /\ lg_entry' = <<[order |-> "main", leg |-> "CE"], [order |-> "stoploss", leg |-> "CE"],
                                     [order |-> "main", leg |-> "PE"], [order |-> "stoploss", leg |-> "PE"]>>
                    /\ lg_st' = [lg_st EXCEPT !.first_order_is_done = TRUE]
               ELSE lg_entry' = <<>> /\ lg_st' = lg_st
         [] OTHER ->
               IF lg_st.done
               THEN lg_entry' = <<>> /\ lg_st' = lg_st
               ELSE IF lg_quote < 0 \/ lg_quote > 0
               THEN /\ lg_entry' = [i \in 1..4 |-> [order |-> "main", leg |-> LGLegs(lg_kind)[i]]]
                    /\ lg_st' = [lg_st EXCEPT !.done = TRUE, !.open = TRUE]
               ELSE lg_entry' = <<>> /\ lg_st' = [lg_st EXCEPT !.done = TRUE]
    /\ UNCHANGED <<lg_kind, lg_quote, lg_exit>>
    /\ NewFrame("lg")

\* strategy_enter_position(candle, instrument, sideband_info) for the first
\* pending intent. The short straddle is called with the base instrument and
\* looks the main order up under it.
LGEnterPosition ==
    /\ lg_entry # <<>>
    /\ LET e == Head(lg_entry)
           instrument == "BASE"
       IN  CASE lg_kind = "greek_delta" ->
                   lg_st' = [lg_st EXCEPT !.main = "OPEN",
                                          !.placed = [stoploss |-> 0, target |-> 0],
                                          !.cancelled = {}]
             [] lg_kind = "short_straddle" ->
                   IF e.order = "main"
                   THEN lg_st' = [lg_st EXCEPT !.main_order = MapPut(@, e.leg, "OPEN"),
                                               !.tracked = @ \cup {e.leg}]
                   ELSE IF instrument \in DOMAIN lg_st.main_order /\ lg_st.main_order[instrument] = "COMPLETE"
                   THEN lg_st' = [lg_st EXCEPT !.stoploss[e.leg] = "OPEN"]
                   ELSE lg_st' = [lg_st EXCEPT !.stoploss[e.leg] = "NONE"]
             [] OTHER ->
                   lg_st' = [lg_st EXCEPT !.held = @ \cup {e.leg}]
    /\ lg_entry' = Tail(lg_entry)
    /\ UNCHANGED <<lg_kind, lg_quote, lg_exit>>
    /\ NewFrame("lg")

CheckAndPlaceExitOrderAlways(st, exit_type) ==
    [st EXCEPT ![exit_type] = "OPEN", !.placed[exit_type] = @ + 1]

CheckAndPlaceExitOrder(st, exit_type) ==
    IF st[exit_type] # "NONE"
    THEN st
    ELSE [st EXCEPT ![exit_type] = "OPEN", !.placed[exit_type] = @ + 1]

\* profit: delta_tot >= profit_desired, as the short straddle computes it from
\* the broker's prices.
LGSelectForExit(profit) ==
    /\ lg_entry = <<>>
    /\ lg_exit = <<>>
    /\ CASE lg_kind = "greek_delta" ->
               IF lg_st.main = "COMPLETE"
               THEN LET s2 == CheckAndPlaceExitOrder(CheckAndPlaceExitOrder(lg_st, "stoploss"), "target")
                        Cancel(s, name) == [s EXCEPT !.cancelled = @ \cup {name},
                                                     ![name] = IF @ = "OPEN" THEN "CANCELLED" ELSE @]
                    IN  IF s2.stoploss = "COMPLETE"
                        THEN lg_st' = Cancel(s2, "target") /\ lg_exit' = <<[action |-> "EXIT", leg |-> "OPT"]>>
                        ELSE IF s2.target = "COMPLETE"
                        THEN lg_st' = Cancel(s2, "stoploss") /\ lg_exit' = <<[action |-> "EXIT", leg |-> "OPT"]>>
                        ELSE lg_st' = s2 /\ lg_exit' = <<>>
               ELSE lg_st' = lg_st /\ lg_exit' = <<>>
         [] lg_kind = "short_straddle" ->
               /\ lg_exit' = <<>>
               /\ IF lg_st.day_start = "None"
                  THEN lg_st' = lg_st
                  ELSE LET Other(l) == IF l = "CE" THEN "PE" ELSE "CE"
                           Drop(s, l) == [s EXCEPT !.stoploss[l] = "NONE", !.tracked = @ \ {l}]
                           Leg(s, l) ==
                               LET s1 == IF s.stoploss[l] = "COMPLETE" THEN Drop(s, Other(l)) ELSE s
                               IN  IF s1.tracked = {"CE", "PE"} /\ profit
                                   THEN Drop(Drop(s1, "PE"), "CE")
                                   ELSE s1
                       IN  lg_st' = Leg(Leg(lg_st, "CE"), "PE")
         [] OTHER ->
               /\ lg_st' = lg_st
               /\ lg_exit' = IF lg_st.open /\ Abs(lg_quote) < ExitThreshold
                             THEN [i \in 1..4 |-> [action |-> "EXIT_BOX", leg |-> LGLegs(lg_kind)[i]]]
                             ELSE <<>>
    /\ UNCHANGED <<lg_kind, lg_quote, lg_entry>>
    /\ NewFrame("lg")

\* strategy_exit_position for the first pending intent. (The short straddle
\* never emits one.)
LGExitPosition ==
    /\ lg_exit # <<>>
    /\ LET x == Head(lg_exit)
       IN  CASE lg_kind = "greek_delta" ->
                   lg_st' = [lg_st EXCEPT !.main = "NONE", !.target = "NONE", !.stoploss = "NONE"]
             [] lg_kind = "box_spread" ->
                   lg_st' = [lg_st EXCEPT !.held = @ \ {x.leg}, !.closed = @ \cup {x.leg}]
             [] OTHER -> lg_st' = lg_st
    /\ lg_exit' = Tail(lg_exit)
    /\ UNCHANGED <<lg_kind, lg_quote, lg_entry>>
    /\ NewFrame("lg")

LGNext ==
    \/ \E q \in LGQuotes : LGTick(q)
    \/ \E name \in {"main", "stoploss", "target"}, leg \in {"OPT", "CE", "PE"} : LGFill(name, leg)
    \/ LGSelectForEntry
    \/ LGEnterPosition
    \/ \E profit \in BOOLEAN : LGSelectForExit(profit)
    \/ LGExitPosition

SpecLG == InitLG /\ [][LGNext]_vars

InitSpread == SPInit /\ OBVIdle /\ XOIdle /\ NewIdle("-")

SpecSpread == InitSpread /\ [][SPNext]_vars

InitXO == XOInit /\ OBVIdle /\ SPIdle /\ NewIdle("-")

SpecXO == InitXO /\ [][XONext]_vars

InitOBV == OBVInit /\ XOIdle /\ SPIdle /\ NewIdle("-")

SpecOBV == InitOBV /\ [][OBVNext]_vars

-----------------------------------------------------------------------------
(* Claims about OBV Breakout *)

\* C1: an instrument is selected for entry only while it has no record in
\* positions_data, is selected for exit only while it has a record, and has no
\* record after strategy_exit_position ran with action EXIT; so every
\* instrument the host is about to enter has no open position record.
C1_OneOpenRecordPerInstrument ==
    /\ \A k \in DOMAIN obv_entry : obv_entry[k].instrument \notin DOMAIN positions_data
    /\ \A k \in DOMAIN obv_exit : obv_exit[k].instrument \in DOMAIN positions_data
    /\ (obv_call.op = "exit" /\ obv_call.action = "EXIT")
          => obv_call.instrument \notin DOMAIN positions_data

\* An exit has removed one instrument's record while the other instrument
\* still holds a position.
C1_Witness ==
    /\ obv_call.op = "exit"
    /\ obv_call.action = "EXIT"
    /\ DOMAIN positions_data # {}

\* C8: strategy_exit_position returns True exactly when it has closed the
\* position and removed the record (action EXIT), and False otherwise.
C8_ExitReturnsTrueIffClosed ==
    /\ obv_call.op = "exit" =>
          obv_call.ret = (IF obv_call.closed /\ obv_call.instrument \notin DOMAIN positions_data
                          THEN "True" ELSE "False")
    /\ xo_call.op = "exit" =>
          xo_call.ret = (IF xo_call.action = "EXIT" /\ main_order_map[xo_call.instrument] = None
                         THEN "True" ELSE "False")

\* C9: whenever strategy_enter_position has issued a broker order for an
\* instrument, positions_data holds a record for it when the call returns.
C9_OrderImpliesRecord ==
    (obv_call.op = "enter" /\ obv_call.ordered)
        => obv_call.instrument \in DOMAIN positions_data

\* C10: on an empty or too short bar window the entry and exit selectors raise
\* nothing and select nothing: a selection call never raises, and every
\* instrument it returns has a window of at least the lookback.
C10_ShortWindowNoSignalNoRaise ==
    [][ (/\ obv_version = "pool"
         /\ obv_call'.op \in {"select_entry", "select_exit"}
         /\ obv_entry = <<>> /\ obv_exit = <<>>
         /\ hist' = hist)
        => /\ ~obv_call'.raised
           /\ \A k \in DOMAIN obv_entry' :
                  Len(hist[obv_entry'[k].instrument]) >= LookbackPeriod
           /\ \A k \in DOMAIN obv_exit' :
                  Len(hist[obv_exit'[k].instrument]) >= LookbackPeriod ]_vars

-----------------------------------------------------------------------------
(* Claims about the crossover strategies *)

\* C2: in the EMA crossover strategies the entry selector never selects an
\* instrument whose main_order_map entry is non-None, so that
\* strategy_enter_position never overwrites a handle that was not exited.
C2_EntryOnlyWithoutOpenOrder ==
    xo_kind \in {"ema_intraday", "ema_delivery", "inverse_ema_delivery"}
        => \A k \in DOMAIN xo_entry : main_order_map[xo_entry[k].instrument] = None

-----------------------------------------------------------------------------
(* Claims: two-leg call spreads *)

BCSKinds == {"bcs_stoploss", "bcs_tsl_reentry"}

\* C3: the exit selector of the two-leg spreads returns an instrument list and a
\* metadata list of the same length, and the k-th metadata entry names the base
\* instrument of the k-th instrument.
C3_ExitListsAligned ==
    /\ Len(sp_exit.instruments) = Len(sp_exit.meta)
    /\ \A k \in DOMAIN sp_exit.instruments :
          k \in DOMAIN sp_exit.meta => sp_exit.meta[k].base_instrument = sp_exit.instruments[k][1]

\* C4: when a leg's order is not placed successfully in strategy_enter_position,
\* every sibling leg already placed gets exit_position(), the base instrument is
\* removed from the ledger and ABSystemExit is raised, whether the failing leg
\* is the first or a later one.
C4_LegFailureUnwindsAndAborts ==
    (sp_kind \in BCSKinds /\ sp_call.op = "enter" /\ sp_call.placed = FALSE)
        => /\ sp_call.raised = "ABSystemExit"
           /\ sp_call.arg.base_instrument \notin DOMAIN cimo
           /\ (sp_call.arg.action = "SELL" => sp_call.exited = {"BUY"})

\* C5: in the bull call spreads every strategy_exit_position call the host makes
\* for a selected leg returns True without raising and leaves no order of the
\* base instrument in child_instrument_main_orders.
C5_ExitPerLegSucceeds ==
    (sp_kind \in BCSKinds /\ sp_call.op = "exit")
        => /\ sp_call.raised = "none"
           /\ sp_call.ret = "True"
           /\ sp_call.arg.meta.base_instrument \notin DOMAIN cimo

\* C6: a second strategy_select_instruments_for_exit call with the same bucket,
\* the same prices and the same orders, with no other callback in between,
\* returns what the first call returned.
C6_SelectForExitIdempotent ==
    [][ ( /\ sp_call.op = "select_exit" /\ sp_call.raised = "none"
          /\ sp_call'.op = "select_exit"
          /\ sp_call'.arg = sp_call.arg
          /\ sp_call'.ltp = sp_call.ltp )
        => sp_exit' = sp_exit ]_vars

\* C7: strategy_select_instruments_for_entry leaves the strategy's state as it
\* was: the re-entry counters, the order ledger and the trailing-stop scalars.
C7_SelectForEntryPure ==
    [][ sp_call'.op = "select_entry"
        => /\ re_entry_count' = re_entry_count
           /\ cimo' = cimo
           /\ sp_tsl' = sp_tsl ]_vars

-----------------------------------------------------------------------------
(* Claims: OBV Breakout decisions *)

\* C12: an open LONG position is selected for EXIT on a tick whose close is below
\* entry_price - multiplier x ATR, whatever the OBV values of that tick are, and
\* a SHORT position on a tick whose close is above entry_price + multiplier x ATR.
C12_AtrStopExits ==
    (lab_out.op = "exit_decision" /\ Len(lab_hist) > AtrPeriod)
        => LET n == Len(lab_hist)
               close == lab_hist[n].close * AtrDen(n)
               entry == lab_pos.entry_price * AtrDen(n)
               band == AtrMultiplier * AtrNum(lab_hist, n)
           IN  /\ (lab_pos.side = "LONG" /\ close < entry - band) => lab_out.val = "EXIT"
               /\ (lab_pos.side = "SHORT" /\ close > entry + band) => lab_out.val = "EXIT"

\* A LONG position whose close fell below the ATR stop on a bar without volume
\* (the OBV is where it was, and the close is the lowest low): EXIT.
C12_Witness ==
    /\ lab_out = [op |-> "exit_decision", val |-> "EXIT"]
    /\ lab_pos = [side |-> "LONG", entry_price |-> 3]
    /\ Len(lab_hist) = 3
    /\ lab_hist[3].close = 0 /\ lab_hist[3].volume = 0
    /\ lab_hist[2].close = 1 /\ lab_hist[2].volume = 0

\* C13: on a rising close series longer than the lookback window the price
\* breakout fires at a tick that reaches a new maximum and does not fire at a
\* tick that stays at the level of the tick before.
C13_BreakoutOnlyOnFreshHigh ==
    ( /\ lab_out.op = "is_price_breakout"
      /\ Len(lab_hist) > LookbackPeriod
      /\ \A k \in 1..(Len(lab_hist) - 1) : lab_hist[k].close <= lab_hist[k + 1].close )
        => (lab_out.val <=> lab_hist[Len(lab_hist)].close > lab_hist[Len(lab_hist) - 1].close)

-----------------------------------------------------------------------------
(* Claims: re-entry limits *)

\* C17: bull call spread with trailing stoploss and re-entry: once the number of
\* entries selected for a base instrument has reached RE_ENTRY_LIMIT, the entry
\* selector does not select legs for it again.  (Stated for the step from an
\* exit of the base, which had at least one entry, to the next entry selection.)
C17_NoEntryBeyondLimit ==
    [][ ( /\ sp_kind = "bcs_tsl_reentry"
          /\ ReEntryLimit <= 1
          /\ sp_call.op = "exit" /\ sp_call.raised = "none"
          /\ sp_call'.op = "select_entry" )
        => \A k \in DOMAIN sp_entry' :
              sp_entry'[k].base_instrument # sp_call.arg.meta.base_instrument ]_vars

-----------------------------------------------------------------------------
(* Claims: VWAP crossover *)

\* C16: the VWAP Crossover Intraday exit selector selects a position entered
\* with BUY only on a tick whose crossover is -1 and a position entered with
\* SELL only on a tick whose crossover is +1; a second crossover in the
\* direction of the entry does not close the position.
C16_ExitOnlyOnReverseCrossover ==
    (ma_kind = "vwap_intraday" /\ ma_call.op = "select_exit" /\ ma_call.ret = "EXIT")
        => /\ ma_order.action = "BUY" => ma_call.cv = -1
           /\ ma_order.action = "SELL" => ma_call.cv = 1

-----------------------------------------------------------------------------
(* C11: the moving-average scenario, fast period 2 and slow period 4 *)

\* C11 as stated: on the closes 10,10,10,12,14,16,14,12,10,8 the entry
\* selector emits BUY at the tick where the fast average first exceeds the
\* slow one (tick 4: fast 11, slow 10.5).
C11_BuyWhereFastFirstExceedsSlow ==
    (/\ ma_kind = "sma_bracket"
     /\ ma_series = <<10, 10, 10, 12, 14, 16, 14, 12, 10, 8>>
     /\ ma_call.op = "select_entry"
     /\ ma_call.n = 4)
        => ma_call.ret = "BUY"

\* C11 amended: on those closes the slow average has no value before tick 4,
\* so no BUY is ever emitted and the only signal is the crossunder of tick 8
\* (SELL, in INTRADAY mode only).  With one more leading bar of 10 the entry
\* selector emits BUY exactly at tick 5, an exit selection with the order held
\* on a later tick emits EXIT exactly at the crossunder of tick 9, no order is
\* held before tick 5 and none right after the exit.
C11_CrossoverScenario ==
    /\ (ma_kind = "sma_bracket" /\ ma_series = <<10, 10, 10, 12, 14, 16, 14, 12, 10, 8>>
        /\ ma_call.op = "select_entry")
           => /\ ma_call.ret # "BUY"
              /\ ma_call.ret = "SELL" <=> (ma_call.n = 8 /\ ma_mode = "INTRADAY")
    /\ (ma_kind = "sma_bracket" /\ ma_series = <<10, 10, 10, 10, 12, 14, 16, 14, 12, 10, 8>>)
           => /\ ma_call.op = "select_entry" => (ma_call.ret = "BUY" <=> ma_call.n = 5)
              /\ (ma_call.op = "select_exit" /\ ma_call.n > 5 /\ ma_order # None /\ ma_order.action = "BUY")
                     => (ma_call.ret = "EXIT" <=> ma_call.n = 9)
              /\ Len(ma_hist) < 5 => ma_order = None
              /\ ma_call.op = "exit" => ma_order = None

C11_Witness ==
    /\ ma_kind = "sma_bracket"
    /\ ma_series = <<10, 10, 10, 10, 12, 14, 16, 14, 12, 10, 8>>
    /\ ma_call = [op |-> "exit", n |-> 9, cv |-> 0, ret |-> "True"]
    /\ ma_order = None

-----------------------------------------------------------------------------
(* C15: antisymmetry of the crossover, and the inverse EMA strategy *)

\* C15 as stated, last part: at every tick the entry action of the inverse EMA
\* scalping strategy is the opposite (BUY for SELL, SELL for BUY, none for none)
\* of the action an EMA crossover strategy with the same periods selects.
C15_InverseIsOppositeAtEveryTick ==
    (ma_kind = "inverse_ema" /\ ma_call.op = "select_entry")
        => LET ema == MAEntryAction("ema_compact", ma_mode, ma_call.cv, ma_order)
           IN  ma_call.ret = (IF ema = "BUY" THEN "SELL" ELSE IF ema = "SELL" THEN "BUY" ELSE "-")

\* C15 amended: crossover(B, A) = -crossover(A, B); a tick with the series
\* equal before and after gives 0; in INTRADAY mode the inverse EMA entry
\* action is at every tick the opposite of the EMA crossover strategy's; in
\* DELIVERY mode neither emits SELL: the inverse strategy emits BUY exactly on
\* -1 and the EMA crossover strategy exactly on +1.
C15_AntisymmetricAndInverse ==
    /\ (ma_kind \in {"inverse_ema", "ema_compact"} /\ Len(ma_hist) = 2)
           => LET p == ma_hist[1]
                  c == ma_hist[2]
              IN  /\ Crossover(p[2], c[2], p[1], c[1]) = 0 - Crossover(p[1], c[1], p[2], c[2])
                  /\ (p[1] = p[2] /\ c[1] = c[2]) => MACrossoverValue(ma_kind, ma_hist) = 0
    /\ (ma_kind = "inverse_ema" /\ ma_call.op = "select_entry")
           => LET ema == MAEntryAction("ema_compact", ma_mode, ma_call.cv, ma_order)
              IN  IF ma_mode = "INTRADAY"
                  THEN ma_call.ret = (IF ema = "BUY" THEN "SELL" ELSE IF ema = "SELL" THEN "BUY" ELSE "-")
                  ELSE /\ ma_call.ret = (IF ma_call.cv = -1 THEN "BUY" ELSE "-")
                       /\ ema = (IF ma_call.cv = 1 THEN "BUY" ELSE "-")

C15_Witness ==
    /\ ma_kind = "inverse_ema"
    /\ ma_mode = "INTRADAY"
    /\ ma_hist = <<<<2, 1>>, <<1, 2>>>>
    /\ ma_call = [op |-> "select_entry", n |-> 2, cv |-> -1, ret |-> "BUY"]

-----------------------------------------------------------------------------
(* C14: Bollinger Bands, band touch and reversal *)

\* C14: get_decision returns BUY at tick T+1 exactly when the bar of tick T
\* reached down to the lower band as it stood at tick T and the close of T+1 is
\* above the close of T, SELL exactly when the bar of T reached up to the upper
\* band of tick T and the close of T+1 is below the close of T, and nothing
\* otherwise.  (Stated for histories long enough for the band of tick T to exist.)
C14_BandTouchAndReversal ==
    (bb_out.op = "get_decision" /\ Len(bb_hist) > TimePeriod)
        => LET n == Len(bb_hist)
               latest == bb_hist[n]
               prev == bb_hist[n - 1]
               buy == AtBand("lower", prev.low, bb_hist, n - 1) /\ latest.close > prev.close
               sell == AtBand("upper", prev.high, bb_hist, n - 1) /\ latest.close < prev.close
           IN  bb_out.val = (IF buy THEN "BUY" ELSE IF sell THEN "SELL" ELSE "None")

-----------------------------------------------------------------------------
(* C18: bull call spread with target stops and re-entry *)

\* C18: reentry_count of a base goes up by exactly one per complete two-leg
\* entry (with both legs held it equals the number of complete entries, and it
\* is never more than one ahead of it), the number of entries of a base never
\* exceeds RE_ENTRY_LIMIT + 1, and execution_complete becomes True only in a
\* step after which every base of the bucket has had RE_ENTRY_LIMIT + 1 entries.
C18_ReentryCountPerEntry ==
    /\ [](rx_kind = "bcs_target"
            => \A b \in Bases :
                  LET count == rx_st.re_entry_count[b].reentry_count
                      done == rx_log.done[b]
                  IN  /\ count \in {done, done + 1}
                      /\ rx_legs[b] = NumLegs(rx_kind) => count = done
                      /\ done <= rx_limit + 1
                      /\ count <= rx_limit + 1)
    /\ [][ (rx_kind = "bcs_target" /\ ~rx_st.execution_complete /\ rx_st'.execution_complete)
             => \A k \in DOMAIN rx_bucket : rx_log.done'[rx_bucket[k]] = rx_limit + 1 ]_vars

C18_Witness ==
    /\ rx_kind = "bcs_target"
    /\ rx_bucket = <<"B1", "B2">>
    /\ rx_limit = 1
    /\ rx_st.execution_complete
    /\ rx_log.done = [b \in Bases |-> 2]
    /\ rx_st.re_entry_count["B1"].reentry_count = 2

-----------------------------------------------------------------------------
(* C19: short call butterfly with re-entry *)

\* C19: reentry_left[base] goes down only in an entry selection that selects
\* the base for a re-entry; an entry selection made while reentry_left[base] is
\* 0 does not select the base; and with REENTRY_LIMIT = 0 the first entry
\* selection selects every base of the bucket.
C19_ReentryAllowance ==
    /\ [](( /\ rx_kind = "butterfly" /\ rx_limit = 0
            /\ rx_call.op = "select_entry" )
             => \A k \in DOMAIN rx_bucket :
                   (rx_log.done[rx_bucket[k]] = 0 /\ rx_legs[rx_bucket[k]] = 0)
                      => \E j \in DOMAIN rx_call.sel : rx_call.sel[j] = rx_bucket[k])
    /\ [][ rx_kind = "butterfly"
             => \A b \in Bases :
                   LET selected == \E j \in DOMAIN rx_call'.sel : rx_call'.sel[j] = b
                   IN  /\ (rx_st.reentry_left[b] > 0 /\ rx_st'.reentry_left[b] < rx_st.reentry_left[b])
                          => (rx_call'.op = "select_entry" /\ selected /\ rx_log.done[b] >= 1)
                       /\ (rx_st.reentry_left[b] = 0 /\ rx_st' # rx_st)
                          => ~selected ]_vars

-----------------------------------------------------------------------------
(* C20: short iron butterfly and long iron condor with re-entry *)

\* C20: after an exit on a price breach, an entry selection selects legs only
\* if no legs are open and the underlying has moved back from the post-breach
\* reference price by at least the offset (down by the upper offset after an
\* upper breach, up by the lower offset after a lower breach).
C20_ReentryOnlyOnReversal ==
    ( /\ rx_kind \in IronKinds
      /\ rx_call.op = "select_entry"
      /\ rx_log.breach # "-" )
        => \A k \in DOMAIN rx_call.sel :
              LET b == rx_call.sel[k]
              IN  /\ \A i \in Bases : rx_legs[i] = 0
                  /\ rx_log.breach = "upper" => rx_st.ref - rx_price[b] >= UpperOffset
                  /\ rx_log.breach = "lower" => rx_price[b] - rx_st.ref >= LowerOffset

-----------------------------------------------------------------------------
(* C25: OBV Breakout, the lookback trailing stop and the OBV extreme *)

\* C25: for a LONG position the exit decision is EXIT on a tick whose close is
\* below the minimum low of the trailing window before it, for a SHORT position
\* on a tick whose close is above the maximum high of that window, and for a
\* LONG position on a tick whose OBV is below the minimum OBV of the lookback
\* window before it.
C25_TrailingStopCloses ==
    (lab_out.op = "exit_decision" /\ Len(lab_hist) > TrailingStopPeriod /\ Len(lab_hist) > LookbackPeriod)
        => LET n == Len(lab_hist)
               close == lab_hist[n].close
               lows == {lab_hist[k].low : k \in (n - TrailingStopPeriod)..(n - 1)}
               highs == {lab_hist[k].high : k \in (n - TrailingStopPeriod)..(n - 1)}
               obvs == {ObvAt(lab_hist, k) : k \in (n - LookbackPeriod)..(n - 1)}
           IN  /\ (lab_pos.side = "LONG" /\ close < SetMin(lows)) => lab_out.val = "EXIT"
               /\ (lab_pos.side = "SHORT" /\ close > SetMax(highs)) => lab_out.val = "EXIT"
               /\ (lab_pos.side = "LONG" /\ ObvAt(lab_hist, n) < SetMin(obvs)) => lab_out.val = "EXIT"

-----------------------------------------------------------------------------
(* C26: the strategies that filter the entry by strategy_mode *)

\* C26: in EMA crossover compact, SMA bracket order and SMA Heikin Ashi crossover
\* the entry selector never selects SELL when strategy_mode is not INTRADAY, and
\* it selects BUY on an upward crossover in every mode (Heikin Ashi: while no
\* order is held).
C26_SellOnlyIntraday ==
    (ma_kind \in {"ema_compact", "sma_bracket", "sma_heikin_ashi"} /\ ma_call.op = "select_entry")
        => /\ ma_call.ret = "SELL" => ma_mode = "INTRADAY"
           /\ (ma_call.cv = 1 /\ (ma_kind = "sma_heikin_ashi" => ma_order = None))
                  => ma_call.ret = "BUY"

\* A downward crossover outside INTRADAY mode selects nothing.
C26_Witness ==
    /\ ma_kind = "sma_heikin_ashi" /\ ma_mode = "DELIVERY"
    /\ ma_call.op = "select_entry" /\ ma_call.cv = -1 /\ ma_order = None
    /\ ma_call.ret = "-"

-----------------------------------------------------------------------------
(* C28: Bollinger Bands bracket order, FLAT -> OPEN *)

\* C28: in the Bollinger Bands bracket order strategy, when the entry selector
\* is called with an instrument that has no order recorded and whose market
\* action is ENTRY_BUY_EXIT_SELL, it selects that instrument with action BUY;
\* and it never selects an instrument that has an open order.
C28_FlatToOpen ==
    [][ \A bucket \in Buckets :
          (xo_kind = "bollinger_bracket" /\ XOSelectForEntry(bucket))
              => /\ \A k \in DOMAIN bucket :
                        (main_order_map[bucket[k]] = None /\ xo_cross[bucket[k]] = 1)
                            => \E j \in DOMAIN xo_entry' :
                                  xo_entry'[j] = [instrument |-> bucket[k], action |-> "BUY"]
                 /\ \A j \in DOMAIN xo_entry' : main_order_map[xo_entry'[j].instrument] = None ]_vars

-----------------------------------------------------------------------------
(* C27: validation of the parameters at construction *)

\* C27: no strategy object whose parameters hold an invalid period (not a
\* positive integer) or an invalid stoploss/target fraction (outside (0,1))
\* reaches a selector callback: construction fails on such a value.
C27_SelectorsSeeValidParameters ==
    xo_call.op \in {"select_entry", "select_exit"}
        => \A n \in DOMAIN xo_params :
              /\ n \notin {"STOPLOSS_TRIGGER", "TARGET_TRIGGER", "TRAILING_STOPLOSS_TRIGGER"}
                    => PositiveInteger(xo_params[n])
              /\ n \in {"STOPLOSS_TRIGGER", "TARGET_TRIGGER"} => ProperFraction(xo_params[n])

-----------------------------------------------------------------------------
(* C23: put-call ratio, one position per base instrument and the exit *)

\* C23: in the put-call ratio strategy the entry selector selects nothing while
\* an order is held; the exit selector emits EXIT exactly when the sentiment of
\* the current ratio is not neutral and differs from the sentiment of the held
\* option (CE bearish, PE bullish); a neutral ratio never exits.
C23_ExitOnOppositeSentiment ==
    [][ (ma_kind = "put_call_ratio" /\ ma_order # None)
          => LET n == Len(ma_hist)
                 pe == ma_hist[n][1]
                 ce == ma_hist[n][2]
                 bearish == NaN \notin {pe, ce} /\ 10 * pe >= PcrBearish * ce
                 bullish == NaN \notin {pe, ce} /\ ~bearish /\ 10 * pe <= PcrBullish * ce
                 heldBearish == ma_order.action = "BUY CE"
             IN  /\ MASelectForEntry => ma_entry' = "-"
                 /\ MASelectForExit
                       => (ma_exit' # "-" <=> \/ bearish /\ ~heldBearish
                                              \/ bullish /\ heldBearish) ]_vars

\* A held PE, a ratio at the bearish level: the exit selector emits EXIT.
C23_Witness ==
    /\ ma_kind = "put_call_ratio" /\ ma_order # None /\ ma_order.action = "BUY PE"
    /\ ma_call.op = "select_exit" /\ ma_call.cv = 1 /\ ma_call.ret # "-"

-----------------------------------------------------------------------------
(* C24: open range breakout, one order per instrument and day *)

\* C24: in the open range breakout strategies at most one entry order is placed
\* per instrument between two initialize() calls: the entry selector never
\* selects an instrument for which strategy_enter_position has placed an order,
\* also after the position was exited, and it selects nothing before the
\* configured start time.
C24_OneOrderPerDay ==
    /\ [](xo_kind \in ORBKinds => \A i \in Instruments : xo_day.entered[i] <= 1)
    /\ [][ \A bucket \in Buckets :
              (xo_kind \in ORBKinds /\ XOSelectForEntry(bucket))
                  => /\ \A j \in DOMAIN xo_entry' : xo_day.entered[xo_entry'[j].instrument] = 0
                     /\ xo_day.now < StartTime(xo_kind, xo_params) => xo_entry' = <<>> ]_vars

\* Both instruments were entered and exited, the clock is past the start time,
\* both have an upward signal, and the entry selector has selected nothing.
C24_Witness ==
    /\ xo_kind \in ORBKinds
    /\ \A i \in Instruments :
          xo_day.entered[i] = 1 /\ main_order_map[i] = None /\ xo_cross[i] = 1
    /\ xo_day.now >= StartTime(xo_kind, xo_params)
    /\ xo_call.op = "select_entry" /\ xo_entry = <<>>

-----------------------------------------------------------------------------
(* C21: bull call spread with target stops, the trailing stop *)

-----------------------------------------------------------------------------
(* C29: short straddle OTM regular order, the stoploss of a completed main order *)

\* C29: in the short straddle, once the intents of the entry selection have all
\* been handed to strategy_enter_position, every option leg whose main SELL
\* order is COMPLETE and still tracked has a stoploss order placed for it.
C29_CompletedMainHasStoploss ==
    (lg_kind = "short_straddle" /\ lg_st.first_order_is_done /\ lg_entry = <<>>)
        => \A l \in lg_st.tracked :
              lg_st.main_order[l] = "COMPLETE" => lg_st.stoploss[l] # "NONE"

-----------------------------------------------------------------------------
(* C30: options box spread, the position record after the exit *)

\* C30: in the options box spread, once strategy_exit_position has closed every
\* leg of the box, a later call of the exit selector selects nothing, whatever
\* the box cost is.
C30_NoExitAfterExit ==
    [][ \A profit \in BOOLEAN :
          (/\ lg_kind = "box_spread"
           /\ lg_st.closed = {"L1", "L2", "L3", "L4"}
           /\ lg_st.held = {}
           /\ LGSelectForExit(profit))
              => lg_exit' = <<>> ]_vars

-----------------------------------------------------------------------------
(* C22: Greek delta target / stoploss, the two exit orders of a main order *)

-----------------------------------------------------------------------------
(* C31: long call diagonal spread, a failed second leg *)

\* C31: in the long call diagonal spread, when strategy_enter_position for the
\* SELL leg failed to place the order (the call that stopped the strategy),
\* exit_position was called on the BUY leg's order and the base instrument has
\* no entry left in child_instrument_main_orders.
C31_FailedSellLegUnwindsBuyLeg ==
    (sp_kind = "diagonal" /\ sp_call.op = "enter" /\ sp_stopped /\ sp_call.arg.action = "SELL")
        => /\ "BUY" \in sp_call.exited
           /\ sp_call.arg.base_instrument \notin DOMAIN cimo

-----------------------------------------------------------------------------
(* C32: short call butterfly, a failed leg *)

\* C32: in the short call butterfly, once the host has called
\* strategy_enter_position for every leg selected in a tick, a base instrument
\* has either all its leg orders recorded in child_instrument_main_orders (no
\* leg failed) or none (a leg failed): never a partial position.
C32_NoPartialButterfly ==
    (rx_kind = "butterfly" /\ rx_entry = <<>>)
        => \A b \in Bases : rx_legs[b] = 0 \/ rx_legs[b] = NumLegs(rx_kind)

-----------------------------------------------------------------------------
(* C33: bull call spread with target stops, an unresolved child instrument *)

\* C33: in the bull call spread with target stops, a call of the entry selector
\* in which the child instrument of a leg of some base is not resolved does not
\* raise, returns two lists of the same length, and hands the host no leg of
\* such a base, whatever the instruments mapper already holds.
C33_UnresolvedLegSelectsNothing ==
    [][ \A res \in [Bases -> RXResolutions] :
          (rx_kind = "bcs_target" /\ RXSelectForEntry(res))
              => LET r == RXSelectEntryFrom(rx_kind, [st |-> rx_st, ins |-> <<>>, meta |-> <<>>,
                                                      sel |-> <<>>, raised |-> FALSE],
                                            rx_legs, rx_price, rx_limit, rx_bucket, res, 1)
                 IN  /\ ~rx_stopped'
                     /\ Len(r.ins) = Len(r.meta)
                     /\ \A j \in DOMAIN rx_entry' : res[rx_entry'[j].base_instrument] = "both" ]_vars

-----------------------------------------------------------------------------
(* C34: the instrument in the exit list *)

\* C34: while an exit intent is pending the strategy holds an order, and in the
\* put-call ratio strategy the instrument the exit selector put in the list is
\* the option of the held main order (the CE for a held CE, the PE for a held PE).
C34_ExitNamesHeldInstrument ==
    ma_exit # "-"
        => /\ ma_order # None
           /\ ma_kind = "put_call_ratio"
                 => ma_exit = (IF ma_order.action = "BUY CE" THEN "EXIT CE" ELSE "EXIT PE")

====
